---- MODULE Spec2Model ----
(***************************************************************************)
(* Analytics Event Store of SeoulMate (src/backend/analytics.py).          *)
(*                                                                         *)
(* State: the two JSONL event logs, the user-stats JSON document, the      *)
(* clock, and, for the request-parallel deployment (FastAPI runs the sync  *)
(* endpoints of src/backend/app.py on a thread pool), each worker's        *)
(* position inside log_interaction.                                        *)
(*                                                                         *)
(* Time is counted in whole days: datetime.utcnow() is the variable now,   *)
(* isoformat()/fromisoformat() round-trip a datetime exactly and are       *)
(* modelled by the integer itself, timedelta(days=n) is n.  The clock      *)
(* advances between file operations (Tick), not between the clock reads    *)
(* of one call.  Drama titles are numbered; None is Python's None.         *)
(*                                                                         *)
(* Spec, AggregateSpec, CtrSpec, PopularSpec and RingSpec serve one        *)
(* request at a time and differ in the inputs they draw; ConcSpec          *)
(* interleaves the file operations of overlapping log_interaction calls.   *)
(***************************************************************************)
EXTENDS Integers, Sequences, FiniteSets, TLC

VARIABLES
    interactions,   \* interactions.jsonl: the sequence of its records
    search_log,     \* search_log.jsonl: the sequence of its records
    user_stats,     \* user_stats.json: [ok |-> parses as JSON, doc |-> user -> aggregate]
    now,            \* datetime.utcnow()
    ret,            \* the last finished call: [op, arg, val]
    pc,             \* worker -> position inside log_interaction
    call,           \* worker -> the arguments of its running log_interaction
    stats,          \* worker -> the local `stats` dict of _update_user_stats
    stale,          \* worker -> another worker rewrote the document since this one opened it
    written,        \* history: the document of the last completed _save_user_stats
    metadata,       \* app.py: the catalog loaded from meta.pkl, a list of dicts
    use_reranker    \* app.py: the cross-encoder was loaded (`use_reranker and reranker`)

vars == <<interactions, search_log, user_stats, now, ret, pc, call, stats, stale, written,
          metadata, use_reranker>>

----------------------------------------------------------------------------
(* Bounds of the model *)

MaxInteractions == 3
MaxSearches == 2
MaxClock == 2
MaxDays == 1
MaxLimit == 2
MaxTopN == 2

(* Program constants *)

MaxClicked == 100
ClickPoints == 1
WatchlistPoints == 3
SearchMargin == 50
CandidateMargin == 20
SimilarMargin == 20

None == -1

Users == {"u1", "u2"}
Dramas == {1, 2}
Workers == {"w1", "w2"}
ResultLists == {<<>>, <<1>>, <<1, 2>>}
SearchIds == {None} \cup (0 .. MaxClock)
Actions == {"click", "watchlist_add", "watchlist_remove", "rating", "view_details"}

----------------------------------------------------------------------------
(* Sequence helpers: Python list operations used by the code *)

\* list[:-1]
Front(s) == SubSeq(s, 1, Len(s) - 1)

Last(s) == s[Len(s)]

\* x in list
Contains(s, x) == \E i \in 1 .. Len(s) : s[i] = x

\* list[-n:]
LastN(s, n) == IF Len(s) <= n THEN s ELSE SubSeq(s, Len(s) - n + 1, Len(s))

\* list[:n] for n >= 0
FirstN(s, n) == IF Len(s) <= n THEN s ELSE SubSeq(s, 1, n)

\* list.remove(x): deletes the first occurrence
RemoveFirst(s, x) ==
    LET i == CHOOSE k \in 1 .. Len(s) : s[k] = x /\ \A j \in 1 .. (k - 1) : s[j] # x
    IN  SubSeq(s, 1, i - 1) \o SubSeq(s, i + 1, Len(s))

EmptyDoc == [u \in {} |-> 0]

(* Text: a Python str is the sequence of its characters *)

Uppercase == <<"A", "B", "C", "D", "E", "F", "G", "H", "I", "J", "K", "L", "M",
               "N", "O", "P", "Q", "R", "S", "T", "U", "V", "W", "X", "Y", "Z">>
Lowercase == <<"a", "b", "c", "d", "e", "f", "g", "h", "i", "j", "k", "l", "m",
               "n", "o", "p", "q", "r", "s", "t", "u", "v", "w", "x", "y", "z">>

LowerChar(c) ==
    IF \E i \in 1 .. Len(Uppercase) : Uppercase[i] = c
    THEN Lowercase[CHOOSE i \in 1 .. Len(Uppercase) : Uppercase[i] = c]
    ELSE c

\* str.lower()
Lower(text) == [i \in 1 .. Len(text) |-> LowerChar(text[i])]

\* a in b, for two strings
IsSubstring(a, b) ==
    \E i \in 0 .. (Len(b) - Len(a)) : SubSeq(b, i + 1, i + Len(a)) = a

----------------------------------------------------------------------------
(* _update_user_stats: the read-modify-write of one user's aggregate *)

DefaultStats ==
    [total_searches |-> 0, total_clicks |-> 0, watchlist_adds |-> 0,
     favorite_genres |-> <<>>, favorite_actors |-> <<>>,
     interaction_count |-> 0, last_active |-> None,
     clicked_dramas |-> <<>>, watchlist |-> <<>>]

\* a slip in the slice: [:100] keeps the oldest entries and drops the new one
ClickedKeepOldest(clicked, drama_title) ==
    IF ~Contains(clicked, drama_title)
    THEN FirstN(Append(clicked, drama_title), MaxClicked)
    ELSE clicked

\* the "click" branch on clicked_dramas
ClickedAfter(clicked, drama_title) ==
    IF ~Contains(clicked, drama_title)
    THEN LastN(Append(clicked, drama_title), MaxClicked)
    ELSE clicked

\* a slip: the membership test is left out
WatchlistAddedAlways(watchlist, drama_title) == Append(watchlist, drama_title)

\* the "watchlist_add" branch on watchlist
WatchlistAdded(watchlist, drama_title) ==
    IF ~Contains(watchlist, drama_title)
    THEN Append(watchlist, drama_title)
    ELSE watchlist

\* the "watchlist_remove" branch on watchlist
WatchlistRemoved(watchlist, drama_title) ==
    IF Contains(watchlist, drama_title)
    THEN RemoveFirst(watchlist, drama_title)
    ELSE watchlist

\* a slip: total_clicks is counted inside the `not in` branch, for new items only
UserStatsAfterNewClicksOnly(us, drama_title, action, t) ==
    LET counted == [us EXCEPT !.interaction_count = @ + 1, !.last_active = t]
    IN  IF action = "click"
        THEN [counted EXCEPT !.total_clicks =
                                 IF Contains(us.clicked_dramas, drama_title) THEN @ ELSE @ + 1,
                             !.clicked_dramas = ClickedAfter(@, drama_title)]
        ELSE IF action = "watchlist_add"
        THEN [counted EXCEPT !.watchlist_adds = @ + 1,
                             !.watchlist = WatchlistAdded(@, drama_title)]
        ELSE IF action = "watchlist_remove"
        THEN [counted EXCEPT !.watchlist = WatchlistRemoved(@, drama_title)]
        ELSE counted

\* a slip: interaction_count is counted in the action branches only, not for a view
UserStatsAfterViewsUncounted(us, drama_title, action, t) ==
    LET counted == [us EXCEPT !.last_active = t]
    IN  IF action = "click"
        THEN [counted EXCEPT !.interaction_count = @ + 1, !.total_clicks = @ + 1,
                             !.clicked_dramas = ClickedAfter(@, drama_title)]
        ELSE IF action = "watchlist_add"
        THEN [counted EXCEPT !.interaction_count = @ + 1, !.watchlist_adds = @ + 1,
                             !.watchlist = WatchlistAdded(@, drama_title)]
        ELSE IF action = "watchlist_remove"
        THEN [counted EXCEPT !.interaction_count = @ + 1,
                             !.watchlist = WatchlistRemoved(@, drama_title)]
        ELSE counted

\* one user's aggregate after the counters and the action branches ran
UserStatsAfter(us, drama_title, action, t) ==
    LET counted == [us EXCEPT !.interaction_count = @ + 1, !.last_active = t]
    IN  IF action = "click"
        THEN [counted EXCEPT !.total_clicks = @ + 1,
                             !.clicked_dramas = ClickedAfter(@, drama_title)]
        ELSE IF action = "watchlist_add"
        THEN [counted EXCEPT !.watchlist_adds = @ + 1,
                             !.watchlist = WatchlistAdded(@, drama_title)]
        ELSE IF action = "watchlist_remove"
        THEN [counted EXCEPT !.watchlist = WatchlistRemoved(@, drama_title)]
        ELSE counted

\* the whole `stats` dict after the update of user_id's entry
UpdatedStats(doc, user_id, drama_title, action, t) ==
    LET us == IF user_id \in DOMAIN doc THEN doc[user_id] ELSE DefaultStats
    IN  (user_id :> UserStatsAfter(us, drama_title, action, t)) @@ doc

----------------------------------------------------------------------------
(* Records written to the logs *)

SearchId(t) == t

SearchData(user_id, query, intent, results, t_id, t_stamp) ==
    [search_id |-> SearchId(t_id), user_id |-> user_id, query |-> query,
     intent |-> intent, results |-> results, filters |-> EmptyDoc,
     session_id |-> None, timestamp |-> t_stamp, result_count |-> Len(results)]

InteractionData(user_id, drama_title, action, search_id, t) ==
    [user_id |-> user_id, drama_title |-> drama_title, action |-> action,
     search_id |-> search_id, position |-> None, session_id |-> None,
     timestamp |-> t, metadata |-> EmptyDoc]

\* a line of a log that json.loads rejects
NotJson == [form |-> "not_json"]

\* a line that parses, with the "timestamp" key left out
WithoutTimestamp(data) == [f \in DOMAIN data \ {"timestamp"} |-> data[f]]

\* a line that parses, with a timestamp that datetime.fromisoformat rejects
WithBadTimestamp(data) == [data EXCEPT !.timestamp = None]

----------------------------------------------------------------------------
(* Scans of the logs *)

\* json.loads(line) returns
IsJson(line) == line # NotJson

\* datetime.fromisoformat(data["timestamp"]) raises: KeyError for a missing key,
\* ValueError or TypeError for a value that is no ISO date
TimestampRaises(data) == "timestamp" \notin DOMAIN data \/ data.timestamp = None

\* the loop of _load_interactions / _load_searches over `file` ends in an exception:
\* `except json.JSONDecodeError` catches neither of the above, and the timestamp is
\* read only when a cutoff is set
ScanRaises(file, days) ==
    /\ days # None /\ days # 0
    /\ \E i \in 1 .. Len(file) : IsJson(file[i]) /\ TimestampRaises(file[i])

\* _load_interactions(days, user_id); None stands for an omitted argument
LoadInteractions(days, user_id) ==
    LET cutoff_set == days # None /\ days # 0
        cutoff_date == now - days
        Keep(data) ==
            /\ IsJson(data)
            /\ ~(cutoff_set /\ data.timestamp < cutoff_date)
            /\ ~(user_id # None /\ data.user_id # user_id)
    IN  SelectSeq(interactions, Keep)

\* _load_searches(days)
LoadSearches(days) ==
    LET cutoff_set == days # None /\ days # 0
        cutoff_date == now - days
        Keep(data) == IsJson(data) /\ ~(cutoff_set /\ data.timestamp < cutoff_date)
    IN  SelectSeq(search_log, Keep)

\* _get_search_by_id: the first record with that id as <<record>>, <<>> for None
GetSearchById(search_id) ==
    LET searches == LoadSearches(None)
        hits == {i \in 1 .. Len(searches) : searches[i].search_id = search_id}
    IN  IF hits = {} THEN <<>>
        ELSE <<searches[CHOOSE i \in hits : \A j \in hits : i <= j]>>

\* a float quotient, kept exact as numerator / denominator
Ratio(n, d) == [num |-> n, den |-> d]
Zero == Ratio(0, 1)

\* get_click_through_rate
ClickThroughRate(search_id) ==
    LET all == LoadInteractions(None, None)
        IsHit(i) == i.search_id = search_id
        search_interactions == SelectSeq(all, IsHit)
        IsClick(i) == i.action = "click"
        clicks == Len(SelectSeq(search_interactions, IsClick))
        search_data == GetSearchById(search_id)
    IN  IF search_interactions = <<>> THEN Zero
        ELSE IF search_data = <<>> THEN Zero
        ELSE IF search_data[1].result_count > 0
             THEN Ratio(clicks, search_data[1].result_count)
             ELSE Zero

\* the drama_scores defaultdict after the loop: its keys in insertion order, its values
RECURSIVE DramaScores(_)
DramaScores(loaded) ==
    IF loaded = <<>> THEN [order |-> <<>>, data |-> EmptyDoc]
    ELSE LET prev == DramaScores(Front(loaded))
             drama == Last(loaded).drama_title
             action == Last(loaded).action
             cur == IF drama \in DOMAIN prev.data THEN prev.data[drama]
                    ELSE [clicks |-> 0, watchlist_adds |-> 0, score |-> 0]
             order == IF drama \in DOMAIN prev.data THEN prev.order
                      ELSE Append(prev.order, drama)
         IN  IF action = "click"
             THEN [order |-> order,
                   data |-> (drama :> [cur EXCEPT !.clicks = @ + 1,
                                                  !.score = @ + ClickPoints]) @@ prev.data]
             ELSE IF action = "watchlist_add"
             THEN [order |-> order,
                   data |-> (drama :> [cur EXCEPT !.watchlist_adds = @ + 1,
                                                  !.score = @ + WatchlistPoints]) @@ prev.data]
             ELSE prev

\* a slip: an unstable sort that puts x ahead of its equals
InsertAheadOfEquals(sorted, x) ==
    LET ahead == {i \in 1 .. Len(sorted) : sorted[i].score > x.score}
        k == Cardinality(ahead)
    IN  SubSeq(sorted, 1, k) \o <<x>> \o SubSeq(sorted, k + 1, Len(sorted))

\* x placed into a list sorted by score descending, behind its equals
InsertByScore(sorted, x) ==
    LET ahead == {i \in 1 .. Len(sorted) : sorted[i].score >= x.score}
        k == Cardinality(ahead)
    IN  SubSeq(sorted, 1, k) \o <<x>> \o SubSeq(sorted, k + 1, Len(sorted))

\* list.sort(key=score, reverse=True): stable, equal scores keep their order
RECURSIVE SortByScore(_)
SortByScore(list) ==
    IF list = <<>> THEN <<>>
    ELSE InsertByScore(SortByScore(Front(list)), Last(list))

\* get_popular_dramas(days, limit)
PopularDramas(days, limit) ==
    LET scores == DramaScores(LoadInteractions(days, None))
        popular == [i \in 1 .. Len(scores.order) |->
                       LET data == scores.data[scores.order[i]]
                       IN  [drama_title |-> scores.order[i], score |-> data.score,
                            click_count |-> data.clicks,
                            watchlist_count |-> data.watchlist_adds]]
    IN  FirstN(SortByScore(popular), limit)

\* a slip: the intent is set only when the query is seen for the first time
IntentKeptFirst(query_intents, query, intent) ==
    IF query \in DOMAIN query_intents THEN query_intents
    ELSE (query :> intent) @@ query_intents

\* query_intents[query] = intent
IntentAfter(query_intents, query, intent) == (query :> intent) @@ query_intents

\* the Counter and the intents dict after the loop of get_trending_searches: the
\* Counter's keys in insertion order, its counts, the intents
RECURSIVE QueryCounts(_)
QueryCounts(searches) ==
    IF searches = <<>> THEN [order |-> <<>>, count |-> EmptyDoc, intent |-> EmptyDoc]
    ELSE LET prev == QueryCounts(Front(searches))
             query == Lower(Last(searches).query)
             seen == query \in DOMAIN prev.count
         IN  [order |-> IF seen THEN prev.order ELSE Append(prev.order, query),
              count |-> (query :> (IF seen THEN prev.count[query] ELSE 0) + 1) @@ prev.count,
              intent |-> IntentAfter(prev.intent, query, Last(searches).intent)]

\* x placed into a list sorted by count descending, behind its equals
InsertByCount(sorted, x) ==
    LET ahead == {i \in 1 .. Len(sorted) : sorted[i].count >= x.count}
        k == Cardinality(ahead)
    IN  SubSeq(sorted, 1, k) \o <<x>> \o SubSeq(sorted, k + 1, Len(sorted))

RECURSIVE SortByCount(_)
SortByCount(list) ==
    IF list = <<>> THEN <<>>
    ELSE InsertByCount(SortByCount(Front(list)), Last(list))

\* Counter.most_common(n), n >= 0: sorted(items, key=count, reverse=True)[:n]
MostCommon(items, n) == FirstN(SortByCount(items), n)

\* get_trending_searches(days, limit)
TrendingSearches(days, limit) ==
    LET c == QueryCounts(LoadSearches(days))
        items == [i \in 1 .. Len(c.order) |->
                     [query |-> c.order[i], count |-> c.count[c.order[i]],
                      intent |-> c.intent[c.order[i]]]]
    IN  MostCommon(items, limit)

\* round(n / d, digits) counted in units of 10^-digits (scale = 10^digits): the
\* nearest unit, a quotient halfway between two units going to the even one
Rounded(n, d, scale) ==
    LET q == (n * scale) \div d
        rest == (n * scale) % d
    IN  IF 2 * rest > d THEN q + 1
        ELSE IF 2 * rest = d THEN q + (q % 2)
        ELSE q

\* get_analytics_summary(days); average_ctr in thousandths, interactions_per_user
\* in hundredths
AnalyticsSummary(days) ==
    LET loaded == LoadInteractions(days, None)
        searches == LoadSearches(days)
        IsClick(i) == i.action = "click"
        IsWatchlistAdd(i) == i.action = "watchlist_add"
        total_searches == Len(searches)
        total_interactions == Len(loaded)
        total_clicks == Len(SelectSeq(loaded, IsClick))
        unique_users == Cardinality({loaded[i].user_id : i \in 1 .. Len(loaded)})
    IN  [period_days |-> days,
         total_searches |-> total_searches,
         total_interactions |-> total_interactions,
         total_clicks |-> total_clicks,
         total_watchlist_adds |-> Len(SelectSeq(loaded, IsWatchlistAdd)),
         unique_users |-> unique_users,
         average_ctr |-> IF total_searches > 0
                         THEN Rounded(total_clicks, total_searches, 1000) ELSE 0,
         interactions_per_user |-> IF unique_users > 0
                                   THEN Rounded(total_interactions, unique_users, 100)
                                   ELSE 0]

\* get_user_stats: stats.get(user_id, {}) as <<aggregate>>, <<>> for {}
UserStatsOf(doc, user_id) ==
    IF user_id \in DOMAIN doc THEN <<doc[user_id]>> ELSE <<>>

----------------------------------------------------------------------------
(* recommend: Stage 4.1, the filters *)

\* dict.get(key, default)
Get(r, key, default) == IF key \in DOMAIN r THEN r[key] ELSE default

\* float(x) raises (TypeError for None)
FloatRaises(x) == x = None

\* value.lower() in str(r.get(field, "")).lower(), for one of the fields; the
\* catalog's text fields hold a str or are absent
MatchesText(r, value, fields) ==
    \E f \in fields : IsSubstring(Lower(value), Lower(Get(r, f, <<>>)))

\* a substring filter: genre, director, publisher, description, keywords,
\* screenwriters; `if value:` is false for None and for "", both written <<>>
SubstringFilter(list, value, fields) ==
    LET Keep(r) == MatchesText(r, value, fields)
    IN  IF value # <<>> THEN SelectSeq(list, Keep) ELSE list

\* r.get("rating_value", r.get("score", 0)) and r.get("rating_count", 0)
RatingValue(r) == Get(r, "rating_value", Get(r, "score", 0))
RatingCount(r) == Get(r, "rating_count", 0)

\* a minimum filter: `if value:` is false for None and for 0; the list comprehension
\* runs inside try / except Exception: pass, so a catalog value that float() rejects
\* ends the comprehension and the list stays as it was
MinimumFilter(list, value, field) ==
    LET Field(r) == IF field = "rating_value" THEN RatingValue(r) ELSE RatingCount(r)
        Keep(r) == Field(r) >= value
    IN  IF value = None \/ value = 0 THEN list
        ELSE IF \E i \in 1 .. Len(list) : FloatRaises(Field(list[i])) THEN list
        ELSE SelectSeq(list, Keep)

\* the request's filters when every argument is left out
NoFilters ==
    [genre |-> <<>>, director |-> <<>>, publisher |-> <<>>, description |-> <<>>,
     rating_value |-> None, rating_count |-> None, keywords |-> <<>>,
     screenwriters |-> <<>>]

\* filtered_metadata after the eight filters, applied in the order of the code
FilteredMetadata(catalog, f) ==
    LET by_genre == SubstringFilter(catalog, f.genre, {"Genre", "genres"})
        by_director == SubstringFilter(by_genre, f.director, {"Director", "directors"})
        by_publisher == SubstringFilter(by_director, f.publisher, {"publisher"})
        by_description ==
            SubstringFilter(by_publisher, f.description, {"Description", "description"})
        by_rating == MinimumFilter(by_description, f.rating_value, "rating_value")
        by_count == MinimumFilter(by_rating, f.rating_count, "rating_count")
        by_keywords == SubstringFilter(by_count, f.keywords, {"keywords"})
    IN  SubstringFilter(by_keywords, f.screenwriters, {"screenwriters"})

----------------------------------------------------------------------------
(* recommend: Stage 4.0, the query analysis as far as recommend uses it.  Alpha and *)
(* the popularity boost are counted in hundredths.                               *)

QueryIntents ==
    {"similar_to", "genre_browse", "actor_based", "top_rated", "year_based",
     "emotion_based", "constraint", "trending", "vague", "specific_title"}

\* get_search_strategy(intent)
SearchStrategy(intent) ==
    CASE intent = "specific_title" ->
             [use_reranker |-> FALSE, top_k_candidates |-> 20,
              apply_diversity |-> FALSE, boost_popularity |-> 0]
      [] intent = "actor_based" ->
             [use_reranker |-> TRUE, top_k_candidates |-> 50,
              apply_diversity |-> TRUE, boost_popularity |-> 10]
      [] intent = "top_rated" ->
             [use_reranker |-> TRUE, top_k_candidates |-> 100,
              apply_diversity |-> TRUE, boost_popularity |-> 20]
      [] intent = "emotion_based" ->
             [use_reranker |-> TRUE, top_k_candidates |-> 80,
              apply_diversity |-> TRUE, boost_popularity |-> 5]
      [] intent = "vague" ->
             [use_reranker |-> TRUE, top_k_candidates |-> 100,
              apply_diversity |-> TRUE, boost_popularity |-> 30]
      [] intent = "trending" ->
             [use_reranker |-> FALSE, top_k_candidates |-> 50,
              apply_diversity |-> TRUE, boost_popularity |-> 50]
      [] OTHER ->
             [use_reranker |-> TRUE, top_k_candidates |-> 50,
              apply_diversity |-> TRUE, boost_popularity |-> 10]

\* intent_weights.get(intent, 0.7)
BaseAlpha(intent) ==
    CASE intent = "specific_title" -> 30
      [] intent = "actor_based" -> 35
      [] intent = "year_based" -> 50
      [] intent = "genre_browse" -> 65
      [] intent = "top_rated" -> 60
      [] intent = "emotion_based" -> 85
      [] intent = "similar_to" -> 75
      [] intent = "trending" -> 55
      [] intent = "constraint" -> 60
      [] intent = "vague" -> 80
      [] OTHER -> 70

Max(a, b) == IF a >= b THEN a ELSE b
Min(a, b) == IF a <= b THEN a ELSE b

\* a slip: the clamp is applied to the table value, before the adjustments
DynamicAlphaClampedFirst(intent, entities) ==
    Max(20, Min(95, BaseAlpha(intent)))
        - (IF entities.actors THEN 10 ELSE 0)
        - (IF entities.years THEN 5 ELSE 0)
        + (IF entities.emotions THEN 10 ELSE 0)

\* _calculate_dynamic_alpha; entities tells which entity lists are not empty
DynamicAlpha(intent, entities) ==
    LET base_alpha == BaseAlpha(intent)
                          - (IF entities.actors THEN 10 ELSE 0)
                          - (IF entities.years THEN 5 ELSE 0)
                          + (IF entities.emotions THEN 10 ELSE 0)
    IN  Max(20, Min(95, base_alpha))

\* the part of analyze()'s result that recommend reads
Analysis(intent, entities, confidence) ==
    [intent |-> intent, dynamic_alpha |-> DynamicAlpha(intent, entities),
     confidence |-> confidence]

----------------------------------------------------------------------------
(* query_analyzer: regular expressions.  A pattern is a sequence of elements: a   *)
(* set of alternative literals, a run of min to max characters of one class (max *)
(* None: any number), or one of the assertions ^, $ and \b.  An alternation of    *)
(* sequences and an optional group are written as several patterns; a group     *)
(* repeated once or more is the element "plus".  A position is the index of the  *)
(* next character to read.                                                       *)

\* a character of a class: \s, \d, [0-2], [A-Z], [a-z], ., \w
Accepts(class, c, ignorecase) ==
    LET lower == {Lowercase[i] : i \in 1 .. Len(Lowercase)}
        upper == {Uppercase[i] : i \in 1 .. Len(Uppercase)}
        digit == {"0", "1", "2", "3", "4", "5", "6", "7", "8", "9"}
    IN  CASE class = "space" -> c \in {" ", "\t", "\n"}
          [] class = "digit" -> c \in digit
          [] class = "d02" -> c \in {"0", "1", "2"}
          [] class = "upper" -> c \in upper \/ (ignorecase /\ c \in lower)
          [] class = "lower" -> c \in lower \/ (ignorecase /\ c \in upper)
          [] class = "any" -> c # "\n"
          [] class = "word" -> c \in lower \cup upper \cup digit \cup {"_"}

RECURSIVE MatchEnds(_, _, _, _)
RECURSIVE Repeated(_, _, _, _)

\* the positions at which one or more further matches of sub can end, ends being
\* those found so far
Repeated(sub, text, ends, ignorecase) ==
    LET more == ends \cup UNION {MatchEnds(sub, text, q, ignorecase) : q \in ends}
    IN  IF more = ends THEN ends ELSE Repeated(sub, text, more, ignorecase)

\* the positions at which element e can end when it starts at pos
Advance(e, text, pos, ignorecase) ==
    LET Same(x, y) == IF ignorecase THEN LowerChar(x) = LowerChar(y) ELSE x = y
        Fits(a) == /\ pos + Len(a) - 1 <= Len(text)
                   /\ \A i \in 1 .. Len(a) : Same(text[pos + i - 1], a[i])
        last == IF e.max = None THEN Len(text) + 1 ELSE Min(pos + e.max, Len(text) + 1)
        before == pos > 1 /\ Accepts("word", text[pos - 1], FALSE)
        after == pos <= Len(text) /\ Accepts("word", text[pos], FALSE)
    IN  CASE e.k = "lit" -> {pos + Len(a) : a \in {b \in e.alt : Fits(b)}}
          [] e.k = "rep" ->
                 {q \in (pos + e.min) .. last :
                     \A i \in pos .. (q - 1) : Accepts(e.class, text[i], ignorecase)}
          [] e.k = "plus" ->
                 Repeated(e.sub, text, MatchEnds(e.sub, text, pos, ignorecase), ignorecase)
          [] e.k = "bol" -> IF pos = 1 THEN {pos} ELSE {}
          [] e.k = "eol" -> IF pos = Len(text) + 1 THEN {pos} ELSE {}
          [] e.k = "wb" -> IF before # after THEN {pos} ELSE {}

\* the positions at which a match of pattern can end when it starts at pos
MatchEnds(pattern, text, pos, ignorecase) ==
    IF Len(pattern) = 0 THEN {pos}
    ELSE UNION {Advance(Last(pattern), text, q, ignorecase) :
                   q \in MatchEnds(Front(pattern), text, pos, ignorecase)}

\* re.search(pattern, text), with re.IGNORECASE or without
Search(pattern, text, ignorecase) ==
    \E pos \in 1 .. (Len(text) + 1) : MatchEnds(pattern, text, pos, ignorecase) # {}

\* re.findall for a group that spans the alternatives `patterns`, from pos on: the
\* matches from left to right, none overlapping; every repetition is greedy
RECURSIVE FindAll(_, _, _, _)
FindAll(patterns, text, pos, ignorecase) ==
    LET ends == UNION {MatchEnds(patterns[i], text, pos, ignorecase) :
                         i \in 1 .. Len(patterns)}
        Found(q) == <<SubSeq(text, pos, q - 1)>>
                        \o FindAll(patterns, text, IF q > pos THEN q ELSE pos + 1,
                                   ignorecase)
    IN  IF pos > Len(text) + 1 THEN <<>>
        ELSE IF ends = {} THEN FindAll(patterns, text, pos + 1, ignorecase)
        ELSE Found(CHOOSE q \in ends : \A r \in ends : r <= q)

\* INTENT_PATTERNS, in the order of the dict
IntentPatterns ==
    <<[intent |-> "similar_to", patterns |-> <<
        \* (like|similar to|same as|reminds me of)\s+(.+)
        <<[k |-> "lit", alt |-> {<<"l", "i", "k", "e">>,
                                 <<"s", "i", "m", "i", "l", "a", "r", " ", "t", "o">>,
                                 <<"s", "a", "m", "e", " ", "a", "s">>,
                                 <<"r", "e", "m", "i", "n", "d", "s", " ", "m", "e", " ", "o", "f">>}],
          [k |-> "rep", class |-> "space", min |-> 1, max |-> None],
          [k |-> "rep", class |-> "any", min |-> 1, max |-> None]>>,
        \* (similar|like)\s+
        <<[k |-> "lit", alt |-> {<<"s", "i", "m", "i", "l", "a", "r">>,
                                 <<"l", "i", "k", "e">>}],
          [k |-> "rep", class |-> "space", min |-> 1, max |-> None]>>,
        \* more\s+(of|like)
        <<[k |-> "lit", alt |-> {<<"m", "o", "r", "e">>}],
          [k |-> "rep", class |-> "space", min |-> 1, max |-> None],
          [k |-> "lit", alt |-> {<<"o", "f">>, <<"l", "i", "k", "e">>}]>>>>],
      [intent |-> "actor_based", patterns |-> <<
        \* (with|starring|featuring|by)\s+([A-Z][a-z]+\s+[A-Z][a-z]+)
        <<[k |-> "lit", alt |-> {<<"w", "i", "t", "h">>,
                                 <<"s", "t", "a", "r", "r", "i", "n", "g">>,
                                 <<"f", "e", "a", "t", "u", "r", "i", "n", "g">>,
                                 <<"b", "y">>}],
          [k |-> "rep", class |-> "space", min |-> 1, max |-> None],
          [k |-> "rep", class |-> "upper", min |-> 1, max |-> 1],
          [k |-> "rep", class |-> "lower", min |-> 1, max |-> None],
          [k |-> "rep", class |-> "space", min |-> 1, max |-> None],
          [k |-> "rep", class |-> "upper", min |-> 1, max |-> 1],
          [k |-> "rep", class |-> "lower", min |-> 1, max |-> None]>>,
        \* ([A-Z][a-z]+\s+[A-Z][a-z]+)\s+(drama|series|show)
        <<[k |-> "rep", class |-> "upper", min |-> 1, max |-> 1],
          [k |-> "rep", class |-> "lower", min |-> 1, max |-> None],
          [k |-> "rep", class |-> "space", min |-> 1, max |-> None],
          [k |-> "rep", class |-> "upper", min |-> 1, max |-> 1],
          [k |-> "rep", class |-> "lower", min |-> 1, max |-> None],
          [k |-> "rep", class |-> "space", min |-> 1, max |-> None],
          [k |-> "lit", alt |-> {<<"d", "r", "a", "m", "a">>,
                                 <<"s", "e", "r", "i", "e", "s">>,
                                 <<"s", "h", "o", "w">>}]>>>>],
      [intent |-> "top_rated", patterns |-> <<
        \* (best|top rated|highly rated|excellent|masterpiece)
        <<[k |-> "lit", alt |-> {<<"b", "e", "s", "t">>,
                                 <<"t", "o", "p", " ", "r", "a", "t", "e", "d">>,
                                 <<"h", "i", "g", "h", "l", "y", " ", "r", "a", "t", "e", "d">>,
                                 <<"e", "x", "c", "e", "l", "l", "e", "n", "t">>,
                                 <<"m", "a", "s", "t", "e", "r", "p", "i", "e", "c", "e">>}]>>,
        \* (top|best)\s+\d+
        <<[k |-> "lit", alt |-> {<<"t", "o", "p">>, <<"b", "e", "s", "t">>}],
          [k |-> "rep", class |-> "space", min |-> 1, max |-> None],
          [k |-> "rep", class |-> "digit", min |-> 1, max |-> None]>>,
        \* highest\s+rated
        <<[k |-> "lit", alt |-> {<<"h", "i", "g", "h", "e", "s", "t">>}],
          [k |-> "rep", class |-> "space", min |-> 1, max |-> None],
          [k |-> "lit", alt |-> {<<"r", "a", "t", "e", "d">>}]>>>>],
      [intent |-> "year_based", patterns |-> <<
        \* (20\d{2}|19\d{2})
        <<[k |-> "lit", alt |-> {<<"2", "0">>, <<"1", "9">>}],
          [k |-> "rep", class |-> "digit", min |-> 2, max |-> 2]>>,
        \* (recent|new|latest|current|modern)
        <<[k |-> "lit", alt |-> {<<"r", "e", "c", "e", "n", "t">>,
                                 <<"n", "e", "w">>,
                                 <<"l", "a", "t", "e", "s", "t">>,
                                 <<"c", "u", "r", "r", "e", "n", "t">>,
                                 <<"m", "o", "d", "e", "r", "n">>}]>>,
        \* from\s+(20\d{2})
        <<[k |-> "lit", alt |-> {<<"f", "r", "o", "m">>}],
          [k |-> "rep", class |-> "space", min |-> 1, max |-> None],
          [k |-> "lit", alt |-> {<<"2", "0">>}],
          [k |-> "rep", class |-> "digit", min |-> 2, max |-> 2]>>>>],
      [intent |-> "emotion_based", patterns |-> <<
        \* (sad|funny|scary|happy|romantic|exciting|emotional|touching|heartwarming)
        <<[k |-> "lit", alt |-> {<<"s", "a", "d">>, <<"f", "u", "n", "n", "y">>,
                                 <<"s", "c", "a", "r", "y">>,
                                 <<"h", "a", "p", "p", "y">>,
                                 <<"r", "o", "m", "a", "n", "t", "i", "c">>,
                                 <<"e", "x", "c", "i", "t", "i", "n", "g">>,
                                 <<"e", "m", "o", "t", "i", "o", "n", "a", "l">>,
                                 <<"t", "o", "u", "c", "h", "i", "n", "g">>,
                                 <<"h", "e", "a", "r", "t", "w", "a", "r", "m", "i", "n", "g">>}]>>,
        \* (cry|laugh|smile|scared|romance)
        <<[k |-> "lit", alt |-> {<<"c", "r", "y">>, <<"l", "a", "u", "g", "h">>,
                                 <<"s", "m", "i", "l", "e">>,
                                 <<"s", "c", "a", "r", "e", "d">>,
                                 <<"r", "o", "m", "a", "n", "c", "e">>}]>>,
        \* (feel good|tearjerker|lighthearted)
        <<[k |-> "lit", alt |-> {<<"f", "e", "e", "l", " ", "g", "o", "o", "d">>,
                                 <<"t", "e", "a", "r", "j", "e", "r", "k", "e", "r">>,
                                 <<"l", "i", "g", "h", "t", "h", "e", "a", "r", "t", "e", "d">>}]>>>>],
      [intent |-> "constraint", patterns |-> <<
        \* (short|long|quick|under|less than|more than)\s+\d*\s*(episode|ep)
        <<[k |-> "lit", alt |-> {<<"s", "h", "o", "r", "t">>,
                                 <<"l", "o", "n", "g">>,
                                 <<"q", "u", "i", "c", "k">>,
                                 <<"u", "n", "d", "e", "r">>,
                                 <<"l", "e", "s", "s", " ", "t", "h", "a", "n">>,
                                 <<"m", "o", "r", "e", " ", "t", "h", "a", "n">>}],
          [k |-> "rep", class |-> "space", min |-> 1, max |-> None],
          [k |-> "rep", class |-> "digit", min |-> 0, max |-> None],
          [k |-> "rep", class |-> "space", min |-> 0, max |-> None],
          [k |-> "lit", alt |-> {<<"e", "p", "i", "s", "o", "d", "e">>,
                                 <<"e", "p">>}]>>,
        \* (mini series|limited series)
        <<[k |-> "lit", alt |-> {<<"m", "i", "n", "i", " ", "s", "e", "r", "i", "e", "s">>,
                                 <<"l", "i", "m", "i", "t", "e", "d", " ", "s", "e", "r", "i", "e", "s">>}]>>>>],
      [intent |-> "trending", patterns |-> <<
        \* (trending|popular now|what's hot|viral|buzz)
        <<[k |-> "lit", alt |-> {<<"t", "r", "e", "n", "d", "i", "n", "g">>,
                                 <<"p", "o", "p", "u", "l", "a", "r", " ", "n", "o", "w">>,
                                 <<"w", "h", "a", "t", "'", "s", " ", "h", "o", "t">>,
                                 <<"v", "i", "r", "a", "l">>,
                                 <<"b", "u", "z", "z">>}]>>,
        \* (everyone\s+watching|currently\s+watching)
        <<[k |-> "lit", alt |-> {<<"e", "v", "e", "r", "y", "o", "n", "e">>,
                                 <<"c", "u", "r", "r", "e", "n", "t", "l", "y">>}],
          [k |-> "rep", class |-> "space", min |-> 1, max |-> None],
          [k |-> "lit", alt |-> {<<"w", "a", "t", "c", "h", "i", "n", "g">>}]>>>>],
      [intent |-> "vague", patterns |-> <<
        \* ^(good|nice|great|something|any|recommend)(\s+drama)?$
        <<[k |-> "bol"],
          [k |-> "lit", alt |-> {<<"g", "o", "o", "d">>, <<"n", "i", "c", "e">>,
                                 <<"g", "r", "e", "a", "t">>,
                                 <<"s", "o", "m", "e", "t", "h", "i", "n", "g">>,
                                 <<"a", "n", "y">>,
                                 <<"r", "e", "c", "o", "m", "m", "e", "n", "d">>}],
          [k |-> "eol"]>>,
        \* ^(good|nice|great|something|any|recommend)(\s+drama)?$
        <<[k |-> "bol"],
          [k |-> "lit", alt |-> {<<"g", "o", "o", "d">>, <<"n", "i", "c", "e">>,
                                 <<"g", "r", "e", "a", "t">>,
                                 <<"s", "o", "m", "e", "t", "h", "i", "n", "g">>,
                                 <<"a", "n", "y">>,
                                 <<"r", "e", "c", "o", "m", "m", "e", "n", "d">>}],
          [k |-> "rep", class |-> "space", min |-> 1, max |-> None],
          [k |-> "lit", alt |-> {<<"d", "r", "a", "m", "a">>}],
          [k |-> "eol"]>>,
        \* ^(what\s+should\s+i\s+watch|suggest|recommend)$
        <<[k |-> "bol"],
          [k |-> "lit", alt |-> {<<"w", "h", "a", "t">>}],
          [k |-> "rep", class |-> "space", min |-> 1, max |-> None],
          [k |-> "lit", alt |-> {<<"s", "h", "o", "u", "l", "d">>}],
          [k |-> "rep", class |-> "space", min |-> 1, max |-> None],
          [k |-> "lit", alt |-> {<<"i">>}],
          [k |-> "rep", class |-> "space", min |-> 1, max |-> None],
          [k |-> "lit", alt |-> {<<"w", "a", "t", "c", "h">>}],
          [k |-> "eol"]>>,
        \* ^(what\s+should\s+i\s+watch|suggest|recommend)$
        <<[k |-> "bol"],
          [k |-> "lit", alt |-> {<<"s", "u", "g", "g", "e", "s", "t">>,
                                 <<"r", "e", "c", "o", "m", "m", "e", "n", "d">>}],
          [k |-> "eol"]>>>>]>>

\* [A-Z][a-z]+(\s+[A-Z][a-z]+)+
TitlePattern ==
    <<[k |-> "rep", class |-> "upper", min |-> 1, max |-> 1],
      [k |-> "rep", class |-> "lower", min |-> 1, max |-> None],
      [k |-> "plus", sub |->
          <<[k |-> "rep", class |-> "space", min |-> 1, max |-> None],
            [k |-> "rep", class |-> "upper", min |-> 1, max |-> 1],
            [k |-> "rep", class |-> "lower", min |-> 1, max |-> None]>>]>>

\* actor_pattern, \b([A-Z][a-z]+(?:\s+[A-Z][a-z]+)+)\b
ActorPattern ==
    <<[k |-> "wb"],
      [k |-> "rep", class |-> "upper", min |-> 1, max |-> 1],
      [k |-> "rep", class |-> "lower", min |-> 1, max |-> None],
      [k |-> "plus", sub |->
          <<[k |-> "rep", class |-> "space", min |-> 1, max |-> None],
            [k |-> "rep", class |-> "upper", min |-> 1, max |-> 1],
            [k |-> "rep", class |-> "lower", min |-> 1, max |-> None]>>],
      [k |-> "wb"]>>

\* year_pattern, \b(19\d{2}|20[0-2]\d)\b
YearPatterns ==
    <<<<[k |-> "wb"],
        [k |-> "lit", alt |-> {<<"1", "9">>}],
        [k |-> "rep", class |-> "digit", min |-> 2, max |-> 2],
        [k |-> "wb"]>>,
      <<[k |-> "wb"],
        [k |-> "lit", alt |-> {<<"2", "0">>}],
        [k |-> "rep", class |-> "d02", min |-> 1, max |-> 1],
        [k |-> "rep", class |-> "digit", min |-> 1, max |-> 1],
        [k |-> "wb"]>>>>

\* common_genres of _detect_intent
CommonGenres ==
    <<<<"r", "o", "m", "a", "n", "c", "e">>, <<"a", "c", "t", "i", "o", "n">>,
      <<"c", "o", "m", "e", "d", "y">>,
      <<"t", "h", "r", "i", "l", "l", "e", "r">>,
      <<"h", "i", "s", "t", "o", "r", "i", "c", "a", "l">>,
      <<"f", "a", "n", "t", "a", "s", "y">>, <<"h", "o", "r", "r", "o", "r">>,
      <<"d", "r", "a", "m", "a">>, <<"c", "r", "i", "m", "e">>,
      <<"m", "y", "s", "t", "e", "r", "y">>>>

\* common_genres of _extract_entities
EntityGenres ==
    <<<<"r", "o", "m", "a", "n", "c", "e">>, <<"a", "c", "t", "i", "o", "n">>,
      <<"c", "o", "m", "e", "d", "y">>,
      <<"t", "h", "r", "i", "l", "l", "e", "r">>,
      <<"h", "i", "s", "t", "o", "r", "i", "c", "a", "l">>,
      <<"f", "a", "n", "t", "a", "s", "y">>, <<"h", "o", "r", "r", "o", "r">>,
      <<"d", "r", "a", "m", "a">>, <<"c", "r", "i", "m", "e">>,
      <<"m", "y", "s", "t", "e", "r", "y">>, <<"s", "c", "i", "-", "f", "i">>,
      <<"m", "e", "l", "o", "d", "r", "a", "m", "a">>,
      <<"s", "l", "i", "c", "e", " ", "o", "f", " ", "l", "i", "f", "e">>>>

\* emotions of _extract_entities
Emotions ==
    <<<<"s", "a", "d">>, <<"f", "u", "n", "n", "y">>,
      <<"s", "c", "a", "r", "y">>, <<"h", "a", "p", "p", "y">>,
      <<"r", "o", "m", "a", "n", "t", "i", "c">>,
      <<"e", "x", "c", "i", "t", "i", "n", "g">>,
      <<"e", "m", "o", "t", "i", "o", "n", "a", "l">>,
      <<"t", "o", "u", "c", "h", "i", "n", "g">>,
      <<"h", "e", "a", "r", "t", "w", "a", "r", "m", "i", "n", "g">>>>

\* SYNONYMS
Synonyms ==
    <<"f", "u", "n", "n", "y">> :>
        <<<<"c", "o", "m", "e", "d", "y">>,
          <<"h", "u", "m", "o", "r", "o", "u", "s">>,
          <<"l", "i", "g", "h", "t", "h", "e", "a", "r", "t", "e", "d">>,
          <<"h", "i", "l", "a", "r", "i", "o", "u", "s">>,
          <<"w", "i", "t", "t", "y">>>>
    @@
    <<"s", "a", "d">> :>
        <<<<"m", "e", "l", "o", "d", "r", "a", "m", "a">>,
          <<"t", "e", "a", "r", "j", "e", "r", "k", "e", "r">>,
          <<"e", "m", "o", "t", "i", "o", "n", "a", "l">>,
          <<"t", "r", "a", "g", "i", "c">>,
          <<"t", "o", "u", "c", "h", "i", "n", "g">>>>
    @@
    <<"s", "c", "a", "r", "y">> :>
        <<<<"h", "o", "r", "r", "o", "r">>,
          <<"t", "h", "r", "i", "l", "l", "e", "r">>,
          <<"s", "u", "s", "p", "e", "n", "s", "e">>,
          <<"c", "r", "e", "e", "p", "y">>, <<"d", "a", "r", "k">>>>
    @@
    <<"h", "a", "p", "p", "y">> :>
        <<<<"u", "p", "l", "i", "f", "t", "i", "n", "g">>,
          <<"c", "h", "e", "e", "r", "f", "u", "l">>,
          <<"f", "e", "e", "l", "-", "g", "o", "o", "d">>,
          <<"h", "e", "a", "r", "t", "w", "a", "r", "m", "i", "n", "g">>,
          <<"j", "o", "y", "f", "u", "l">>>>
    @@
    <<"r", "o", "m", "a", "n", "t", "i", "c">> :>
        <<<<"r", "o", "m", "a", "n", "c", "e">>,
          <<"l", "o", "v", "e", " ", "s", "t", "o", "r", "y">>,
          <<"r", "o", "m", "a", "n", "t", "i", "c">>,
          <<"s", "w", "e", "e", "t">>>>
    @@
    <<"e", "x", "c", "i", "t", "i", "n", "g">> :>
        <<<<"a", "c", "t", "i", "o", "n">>,
          <<"t", "h", "r", "i", "l", "l", "i", "n", "g">>,
          <<"i", "n", "t", "e", "n", "s", "e">>,
          <<"f", "a", "s", "t", "-", "p", "a", "c", "e", "d">>>>
    @@
    <<"o", "l", "d">> :>
        <<<<"c", "l", "a", "s", "s", "i", "c">>,
          <<"v", "i", "n", "t", "a", "g", "e">>, <<"r", "e", "t", "r", "o">>,
          <<"9", "0", "s">>, <<"2", "0", "0", "0", "s">>>>
    @@
    <<"n", "e", "w">> :>
        <<<<"r", "e", "c", "e", "n", "t">>, <<"l", "a", "t", "e", "s", "t">>,
          <<"m", "o", "d", "e", "r", "n">>,
          <<"c", "u", "r", "r", "e", "n", "t">>, <<"2", "0", "2", "3">>,
          <<"2", "0", "2", "4">>, <<"2", "0", "2", "5">>>>
    @@
    <<"r", "e", "c", "e", "n", "t">> :>
        <<<<"n", "e", "w">>, <<"l", "a", "t", "e", "s", "t">>,
          <<"m", "o", "d", "e", "r", "n">>,
          <<"c", "u", "r", "r", "e", "n", "t">>>>
    @@
    <<"b", "e", "s", "t">> :>
        <<<<"t", "o", "p", " ", "r", "a", "t", "e", "d">>,
          <<"h", "i", "g", "h", "l", "y", " ", "r", "a", "t", "e", "d">>,
          <<"e", "x", "c", "e", "l", "l", "e", "n", "t">>,
          <<"m", "a", "s", "t", "e", "r", "p", "i", "e", "c", "e">>>>
    @@
    <<"g", "o", "o", "d">> :>
        <<<<"g", "r", "e", "a", "t">>, <<"q", "u", "a", "l", "i", "t", "y">>,
          <<"r", "e", "c", "o", "m", "m", "e", "n", "d", "e", "d">>,
          <<"p", "o", "p", "u", "l", "a", "r">>>>
    @@
    <<"p", "o", "p", "u", "l", "a", "r">> :>
        <<<<"t", "r", "e", "n", "d", "i", "n", "g">>,
          <<"f", "a", "m", "o", "u", "s">>,
          <<"w", "e", "l", "l", "-", "k", "n", "o", "w", "n">>,
          <<"h", "i", "t">>>>
    @@
    <<"s", "h", "o", "r", "t">> :>
        <<<<"m", "i", "n", "i", " ", "s", "e", "r", "i", "e", "s">>,
          <<"f", "e", "w", " ", "e", "p", "i", "s", "o", "d", "e", "s">>,
          <<"q", "u", "i", "c", "k", " ", "w", "a", "t", "c", "h">>>>
    @@
    <<"l", "o", "n", "g">> :>
        <<<<"m", "a", "n", "y", " ", "e", "p", "i", "s", "o", "d", "e", "s">>,
          <<"e", "x", "t", "e", "n", "d", "e", "d">>,
          <<"l", "e", "n", "g", "t", "h", "y", " ", "s", "e", "r", "i", "e", "s">>>>

----------------------------------------------------------------------------
(* query_analyzer: QueryAnalyzer.  The query is a text; confidence and alpha are *)
(* counted in hundredths.                                                       *)

\* a slip: the groups are tried from the last to the first
DetectIntentLastGroup(query) ==
    LET Matches(g) == \E i \in 1 .. Len(g.patterns) : Search(g.patterns[i], query, TRUE)
        Latest(matching) == CHOOSE n \in matching : \A m \in matching : m <= n
        Matched(matching) ==
            IF matching # {}
            THEN [intent |-> IntentPatterns[Latest(matching)].intent, confidence |-> 90]
            ELSE IF Search(TitlePattern, query, FALSE)
            THEN [intent |-> "specific_title", confidence |-> 80]
            ELSE IF \E i \in 1 .. Len(CommonGenres) : IsSubstring(CommonGenres[i], query)
            THEN [intent |-> "genre_browse", confidence |-> 70]
            ELSE [intent |-> "vague", confidence |-> 50]
    IN  Matched({n \in 1 .. Len(IntentPatterns) : Matches(IntentPatterns[n])})

\* _detect_intent(query): the loops return at the first pattern that matches
DetectIntent(query) ==
    LET Matches(g) == \E i \in 1 .. Len(g.patterns) : Search(g.patterns[i], query, TRUE)
        Earliest(matching) == CHOOSE n \in matching : \A m \in matching : n <= m
        Matched(matching) ==
            IF matching # {}
            THEN [intent |-> IntentPatterns[Earliest(matching)].intent, confidence |-> 90]
            ELSE IF Search(TitlePattern, query, FALSE)
            THEN [intent |-> "specific_title", confidence |-> 80]
            ELSE IF \E i \in 1 .. Len(CommonGenres) : IsSubstring(CommonGenres[i], query)
            THEN [intent |-> "genre_browse", confidence |-> 70]
            ELSE [intent |-> "vague", confidence |-> 50]
    IN  Matched({n \in 1 .. Len(IntentPatterns) : Matches(IntentPatterns[n])})

\* int(text) for a text of decimal digits
RECURSIVE ToInt(_)
ToInt(text) ==
    IF text = <<>> THEN 0
    ELSE 10 * ToInt(Front(text))
             + (CHOOSE d \in 0 .. 9 :
                    <<"0", "1", "2", "3", "4", "5", "6", "7", "8", "9">>[d + 1] = Last(text))

\* int(episode_match.group(2)) for re.search(r"(words)\s+(\d+)\s+episode", query),
\* None without a match
EpisodeBound(words, query) ==
    LET spaces == [k |-> "rep", class |-> "space", min |-> 1, max |-> None]
        digits == [k |-> "rep", class |-> "digit", min |-> 1, max |-> None]
        head == <<[k |-> "lit", alt |-> words], spaces>>
        whole == head \o <<digits, spaces,
                            [k |-> "lit", alt |-> {<<"e", "p", "i", "s", "o", "d", "e">>}]>>
        Greatest(ends) == CHOOSE q \in ends : \A r \in ends : r <= q
        Group(pos) == SubSeq(query, Greatest(MatchEnds(head, query, pos, FALSE)),
                             Greatest(MatchEnds(head \o <<digits>>, query, pos, FALSE)) - 1)
        First(starts) == CHOOSE p \in starts : \A r \in starts : p <= r
        Bound(starts) == IF starts = {} THEN None ELSE ToInt(Group(First(starts)))
    IN  Bound({p \in 1 .. (Len(query) + 1) : MatchEnds(whole, query, p, FALSE) # {}})

\* _extract_entities(query); constraints holds a key only for a bound that was found
ExtractEntities(query) ==
    LET Found(words) == SelectSeq(words, LAMBDA w : IsSubstring(w, Lower(query)))
        Years(found) == [i \in 1 .. Len(found) |-> ToInt(found[i])]
        Constraints(max_episodes, min_episodes) ==
            [key \in {k \in {"max_episodes", "min_episodes"} :
                         (IF k = "max_episodes" THEN max_episodes ELSE min_episodes) # None}
                 |-> IF key = "max_episodes" THEN max_episodes ELSE min_episodes]
    IN  [actors |-> FindAll(<<ActorPattern>>, query, 1, FALSE),
         genres |-> Found(EntityGenres),
         years |-> Years(FindAll(YearPatterns, query, 1, FALSE)),
         emotions |-> Found(Emotions),
         constraints |->
             Constraints(EpisodeBound({<<"u", "n", "d", "e", "r">>,
                                       <<"l", "e", "s", "s", " ", "t", "h", "a", "n">>,
                                       <<"f", "e", "w", "e", "r", " ", "t", "h", "a", "n">>},
                                      query),
                         EpisodeBound({<<"m", "o", "r", "e", " ", "t", "h", "a", "n">>,
                                       <<"o", "v", "e", "r">>}, query))]

\* str.strip(): the text without the white space at its two ends
Strip(text) ==
    LET Kept(inked) ==
            IF inked = {} THEN <<>>
            ELSE SubSeq(text, CHOOSE i \in inked : \A j \in inked : i <= j,
                        CHOOSE i \in inked : \A j \in inked : j <= i)
    IN  Kept({i \in 1 .. Len(text) : ~Accepts("space", text[i], FALSE)})

\* str.split(): the runs of characters that are not white space
RECURSIVE Split(_)
Split(text) ==
    LET Word(first) ==
            CHOOSE j \in first .. Len(text) :
                /\ \A i \in first .. j : ~Accepts("space", text[i], FALSE)
                /\ j = Len(text) \/ Accepts("space", text[j + 1], FALSE)
        From(first) ==
            <<SubSeq(text, first, Word(first))>>
                \o Split(SubSeq(text, Word(first) + 1, Len(text)))
        Rest(inked) == IF inked = {} THEN <<>>
                       ELSE From(CHOOSE i \in inked : \A j \in inked : i <= j)
    IN  Rest({i \in 1 .. Len(text) : ~Accepts("space", text[i], FALSE)})

\* " ".join(words)
RECURSIVE Join(_)
Join(words) ==
    IF words = <<>> THEN <<>>
    ELSE IF Len(words) = 1 THEN words[1]
    ELSE words[1] \o <<" ">> \o Join(Tail(words))

\* expanded_words of _expand_query when synonyms[word][:count] is added
RECURSIVE WithSynonyms(_, _)
WithSynonyms(words, count) ==
    IF words = <<>> THEN <<>>
    ELSE <<Head(words)>>
             \o (IF Head(words) \in DOMAIN Synonyms
                 THEN SubSeq(Synonyms[Head(words)], 1,
                             Min(count, Len(Synonyms[Head(words)])))
                 ELSE <<>>)
             \o WithSynonyms(Tail(words), count)

\* a slip: the first three synonyms are added
ExpandQueryThreeSynonyms(query) == Join(WithSynonyms(Split(query), 3))

\* _expand_query(query)
ExpandQuery(query) == Join(WithSynonyms(Split(query), 2))

\* which of the entity lists _calculate_dynamic_alpha finds not empty
Present(entities) ==
    [actors |-> entities.actors # <<>>, years |-> entities.years # <<>>,
     emotions |-> entities.emotions # <<>>]

\* the stages of analyze(query) at time t, from query_lower on
Analysed(query, query_lower, found, entities, t) ==
    [original_query |-> query, intent |-> found.intent,
     expanded_query |-> ExpandQuery(query_lower), entities |-> entities,
     dynamic_alpha |-> DynamicAlpha(found.intent, Present(entities)),
     confidence |-> found.confidence, timestamp |-> t]

\* analyze(query) at time t
Analyze(query, t) ==
    Analysed(query, Strip(Lower(query)), DetectIntent(Strip(Lower(query))),
             ExtractEntities(Strip(Lower(query))), t)

----------------------------------------------------------------------------
(* recommend: Stages 4.3 and 4.4, retrieval and fusion.  A catalog index is a     *)
(* position in metadata, counted from 1.  Semantic scores are counted in tenths, *)
(* lexical scores in units; a combined score is kept exact, as a numerator over  *)
(* the denominator 1000 * max_bm25 that all candidates of a request share.       *)

\* title_to_original_idx[title]: the dict comprehension keeps the last index
TitleToOriginalIdx(catalog, title) ==
    CHOOSE i \in 1 .. Len(catalog) :
        /\ catalog[i].Title = title
        /\ \A j \in 1 .. Len(catalog) : catalog[j].Title = title => j <= i

FilteredIndices(catalog, filtered) ==
    [i \in 1 .. Len(filtered) |-> TitleToOriginalIdx(catalog, filtered[i].Title)]

\* search_k = min(len(filtered_metadata) + 50, len(metadata))
SearchK(catalog, filtered) == Min(Len(filtered) + SearchMargin, Len(catalog))

\* faiss_results: the hits of index.search inside the filtered corpus
FaissResults(catalog, filtered, found, top_n) ==
    LET idxs == FilteredIndices(catalog, filtered)
        Keep(hit) == hit.idx <= Len(catalog) /\ Contains(idxs, hit.idx)
        kept == SelectSeq(found, Keep)
    IN  FirstN([i \in 1 .. Len(kept) |->
                   [rec |-> catalog[kept[i].idx], score |-> kept[i].score]],
               top_n + CandidateMargin)

\* bm25_results: the scores of the filtered corpus, best first
Bm25Results(catalog, filtered, scores, top_n) ==
    LET idxs == FilteredIndices(catalog, filtered)
    IN  FirstN(SortByScore([i \in 1 .. Len(idxs) |->
                               [rec |-> catalog[idxs[i]], score |-> scores[idxs[i]]]]),
               top_n + CandidateMargin)

\* max_bm25
MaxBm25(bm25_results) ==
    LET top == CHOOSE x \in {bm25_results[i].score : i \in 1 .. Len(bm25_results)} :
                   \A i \in 1 .. Len(bm25_results) : bm25_results[i].score <= x
        max_bm25 == IF bm25_results # <<>> THEN top ELSE 1
    IN  IF max_bm25 = 0 THEN 1 ELSE max_bm25

\* the dict combined_scores: its keys in insertion order, its values
NoScores == [order |-> <<>>, value |-> EmptyDoc]

\* combined_scores[title] = alpha * score, for the semantic hits in turn
RECURSIVE SemanticTerms(_, _, _)
SemanticTerms(faiss_results, alpha, max_bm25) ==
    IF faiss_results = <<>> THEN NoScores
    ELSE LET prev == SemanticTerms(Front(faiss_results), alpha, max_bm25)
             title == Last(faiss_results).rec.Title
         IN  [order |-> IF title \in DOMAIN prev.value THEN prev.order
                        ELSE Append(prev.order, title),
              value |-> (title :> alpha * Last(faiss_results).score * max_bm25)
                            @@ prev.value]

\* a slip: the lexical score is added as it is, not divided by the batch maximum
LexicalTermRaw(alpha, score, max_bm25) == (100 - alpha) * score * 10 * max_bm25

\* (1 - alpha) * (score / max_bm25)
LexicalTerm(alpha, score, max_bm25) == (100 - alpha) * score * 10

\* combined_scores[title] = combined_scores.get(title, 0) + the lexical term
RECURSIVE CombinedScores(_, _, _, _)
CombinedScores(semantic, bm25_results, alpha, max_bm25) ==
    IF bm25_results = <<>> THEN semantic
    ELSE LET prev == CombinedScores(semantic, Front(bm25_results), alpha, max_bm25)
             title == Last(bm25_results).rec.Title
             seen == title \in DOMAIN prev.value
         IN  [order |-> IF seen THEN prev.order ELSE Append(prev.order, title),
              value |-> (title :> (IF seen THEN prev.value[title] ELSE 0)
                                      + LexicalTerm(alpha, Last(bm25_results).score,
                                                    max_bm25))
                            @@ prev.value]

\* next(m for m in filtered_metadata if m["Title"] == t)
ByTitle(filtered, t) ==
    filtered[CHOOSE i \in 1 .. Len(filtered) :
                 /\ filtered[i].Title = t
                 /\ \A j \in 1 .. (i - 1) : filtered[j].Title # t]

\* the fused ranking: the dict's items sorted by value, best first, as records
FusedRanking(filtered, combined) ==
    LET items == [i \in 1 .. Len(combined.order) |->
                     [rec |-> ByTitle(filtered, combined.order[i]),
                      score |-> combined.value[combined.order[i]]]]
        ranked == SortByScore(items)
    IN  [i \in 1 .. Len(ranked) |-> ranked[i].rec]

----------------------------------------------------------------------------
(* recommend: similar_to, the sort override, the cut to top_n, Stage 4.5 *)

\* index.search(emb, k): the first k entries of the index's ranking of the whole
\* catalog; the -1 entries FAISS pads with are in no filtered corpus and left out
IndexSearch(ranking, k) == FirstN(ranking, k)

\* the similar_to block
AfterSimilarTo(catalog, filtered, ranked, similar_to, sim_ranking) ==
    LET idxs == FilteredIndices(catalog, filtered)
        found == IndexSearch(sim_ranking, Len(filtered) + SimilarMargin)
        Keep(hit) == hit.idx <= Len(catalog) /\ Contains(idxs, hit.idx)
        kept == SelectSeq(found, Keep)
        sim_titles == {catalog[kept[i].idx].Title : i \in 1 .. Len(kept)}
        IsSimilar(r) == r.Title \in sim_titles
    IN  IF similar_to = <<>> THEN ranked
        ELSE IF \A i \in 1 .. Len(filtered) : Lower(filtered[i].Title) # Lower(similar_to)
        THEN ranked
        ELSE SelectSeq(ranked, IsSimilar)

\* the sort key of the override is a float: the field's value is a number written
\* with digits only (for the numeric fields of the catalog: it is not None)
KeyIsFloat(r, sort_by) == Get(r, sort_by, 0) # None

\* sorted() compares a float key with a str key: TypeError
SortByRaises(list, sort_by) ==
    \E i, j \in 1 .. Len(list) : KeyIsFloat(list[i], sort_by) /\ ~KeyIsFloat(list[j], sort_by)

\* x placed into a list sorted by score ascending, behind its equals
InsertByScoreAscending(sorted, x) ==
    LET ahead == {i \in 1 .. Len(sorted) : sorted[i].score <= x.score}
        k == Cardinality(ahead)
    IN  SubSeq(sorted, 1, k) \o <<x>> \o SubSeq(sorted, k + 1, Len(sorted))

\* sorted(list, key=score): stable
RECURSIVE SortByScoreAscending(_)
SortByScoreAscending(list) ==
    IF list = <<>> THEN <<>>
    ELSE InsertByScoreAscending(SortByScoreAscending(Front(list)), Last(list))

\* sorted(filtered, key=..., reverse=reverse) by a numeric field; keys that are all
\* str(None) are equal and leave the order as it was
SortedBy(list, sort_by, sort_order) ==
    LET keyed == [i \in 1 .. Len(list) |->
                     [rec |-> list[i], score |-> Get(list[i], sort_by, 0)]]
        sorted == IF sort_order = "desc" THEN SortByScore(keyed)
                  ELSE SortByScoreAscending(keyed)
    IN  IF \A i \in 1 .. Len(list) : ~KeyIsFloat(list[i], sort_by) THEN list
        ELSE [i \in 1 .. Len(sorted) |-> sorted[i].rec]

\* the top_rated sort raises: float() of a rating that is None
TopRatedRaises(list) == \E i \in 1 .. Len(list) : FloatRaises(RatingValue(list[i]))

\* sorted(filtered, key=rating, reverse=True)
TopRated(list) ==
    LET keyed == [i \in 1 .. Len(list) |-> [rec |-> list[i], score |-> RatingValue(list[i])]]
        sorted == SortByScore(keyed)
    IN  [i \in 1 .. Len(sorted) |-> sorted[i].rec]

\* list[:n], n of either sign
Slice(list, n) ==
    IF n >= 0 THEN FirstN(list, n) ELSE SubSeq(list, 1, Max(0, Len(list) + n))

\* the try block of Stage 4.5 raises: reranker.predict does, or a record has no
\* "Description"
RerankRaises(top_results, rerank) ==
    \/ rerank.raises
    \/ \E i \in 1 .. Len(top_results) : "Description" \notin DOMAIN top_results[i]

\* a slip: the except branch empties the list
RerankedOrEmpty(top_results, rerank) ==
    LET keyed == [i \in 1 .. Len(top_results) |->
                     [rec |-> top_results[i], score |-> rerank.scores[i]]]
        sorted == SortByScore(keyed)
    IN  IF RerankRaises(top_results, rerank) THEN <<>>
        ELSE [i \in 1 .. Len(sorted) |-> sorted[i].rec]

\* top_results after the try / except of Stage 4.5
Reranked(top_results, rerank) ==
    LET keyed == [i \in 1 .. Len(top_results) |->
                     [rec |-> top_results[i], score |-> rerank.scores[i]]]
        sorted == SortByScore(keyed)
    IN  IF RerankRaises(top_results, rerank) THEN top_results
        ELSE [i \in 1 .. Len(sorted) |-> sorted[i].rec]

----------------------------------------------------------------------------
(* recommend as a whole.  A request req carries the arguments; env carries what   *)
(* the callees answer during the call: the query analysis, the index's rankings  *)
(* for the query and for similar_to, the lexical scores, the reranker's answer   *)
(* and whether log_search succeeds.  The seed text of Stage 4.2 reaches only the *)
(* engines, whose answers env holds.  The returned value records, next to the    *)
(* response, the external calls made and the intermediate results.               *)

NoMatchMessage == "No dramas match your filters. Try broadening your search criteria."

\* a slip: the empty corpus is answered like any other, without the message
EmptyResponseUnmarked(req) ==
    [query |-> [Title |-> req.title], recommendations |-> <<>>]

\* the return statement of the empty corpus
EmptyResponse(req) ==
    [query |-> [Title |-> req.title], recommendations |-> <<>>,
     message |-> NoMatchMessage]

\* the return statement at the end
FullResponse(req, analysis, top_results) ==
    [query |-> [Title |-> req.title],
     analysis |-> [intent |-> analysis.intent,
                   dynamic_alpha |-> analysis.dynamic_alpha,
                   confidence |-> analysis.confidence],
     recommendations |-> top_results]

\* `if user_id and session_id`
LogAttempted(req) == req.user_id # "" /\ req.session_id # ""

Titles(list) == [i \in 1 .. Len(list) |-> list[i].Title]

\* Stages 4.0 and 4.1: the analysis, the strategy and the filtered corpus
Prefiltered(catalog, req, env) ==
    [analysis |-> Analysis(env.intent, env.entities, env.confidence),
     strategy |-> SearchStrategy(env.intent),
     universe |-> FilteredMetadata(catalog, req.filters)]

\* Stage 4.3: the candidates of the two sources
Retrieved(catalog, req, env, s) ==
    [faiss_results |->
         FaissResults(catalog, s.universe,
                      IndexSearch(env.ranking, SearchK(catalog, s.universe)), req.top_n),
     bm25_results |-> Bm25Results(catalog, s.universe, env.scores, req.top_n)] @@ s

\* Stage 4.4: max_bm25 and the dict combined_scores
Combined(s) ==
    [max_bm25 |-> MaxBm25(s.bm25_results),
     combined_scores |->
         CombinedScores(SemanticTerms(s.faiss_results, s.analysis.dynamic_alpha,
                                      MaxBm25(s.bm25_results)),
                        s.bm25_results, s.analysis.dynamic_alpha,
                        MaxBm25(s.bm25_results))] @@ s

\* the fused ranking after the similar_to block
Narrowed(catalog, req, env, s) ==
    [similar |-> AfterSimilarTo(catalog, s.universe,
                                FusedRanking(s.universe, s.combined_scores),
                                req.similar_to, env.sim_ranking),
     sim_searched |->
         /\ req.similar_to # <<>>
         /\ \E i \in 1 .. Len(s.universe) :
                Lower(s.universe[i].Title) = Lower(req.similar_to)] @@ s

\* the sort override and top_results = filtered[:top_n]; a sort that raises leaves
\* no list
Ordered(req, s) ==
    [sort_raises |-> IF req.sort_by # "" THEN SortByRaises(s.similar, req.sort_by)
                     ELSE req.top_rated /\ TopRatedRaises(s.similar),
     pre_rerank |->
         IF req.sort_by # ""
         THEN IF SortByRaises(s.similar, req.sort_by) THEN <<>>
              ELSE Slice(SortedBy(s.similar, req.sort_by, req.sort_order), req.top_n)
         ELSE IF req.top_rated
         THEN IF TopRatedRaises(s.similar) THEN <<>>
              ELSE Slice(TopRated(s.similar), req.top_n)
         ELSE Slice(s.similar, req.top_n)] @@ s

\* Stages 4.5 and 4.7 and the return statements: what the run of recommend leaves
Answered(reranker_loaded, req, env, s) ==
    LET resolution == IF \E i \in 1 .. Len(s.universe) :
                             Lower(s.universe[i].Title) = Lower(req.title)
                      THEN <<>> ELSE <<"process.extractOne">>
        retrieval == resolution \o <<"encode", "index.search", "bm25.get_scores">>
                         \o (IF s.sim_searched THEN <<"encode", "index.search">> ELSE <<>>)
    IN  IF s.universe = <<>>
        THEN [raised |-> FALSE, logged |-> FALSE, response |-> EmptyResponse(req),
              calls |-> <<>>, strategy |-> s.strategy]
        ELSE IF s.sort_raises
        THEN [raised |-> TRUE, logged |-> FALSE, calls |-> retrieval,
              strategy |-> s.strategy]
        ELSE [raised |-> FALSE,
              logged |-> LogAttempted(req) /\ env.log_ok,
              response |->
                  FullResponse(req, s.analysis,
                               IF reranker_loaded THEN Reranked(s.pre_rerank, env.rerank)
                               ELSE s.pre_rerank),
              calls |-> retrieval
                           \o (IF reranker_loaded /\ ~(\E i \in 1 .. Len(s.pre_rerank) :
                                     "Description" \notin DOMAIN s.pre_rerank[i])
                               THEN <<"reranker.predict">> ELSE <<>>)
                           \o (IF LogAttempted(req) THEN <<"log_search">> ELSE <<>>),
              strategy |-> s.strategy,
              universe |-> s.universe,
              max_bm25 |-> s.max_bm25,
              combined_scores |-> s.combined_scores,
              pre_rerank |-> s.pre_rerank]

\* the run of recommend(req) on `catalog` against the answers of env, stage by stage
Recommendation(catalog, reranker_loaded, req, env) ==
    Answered(reranker_loaded, req, env,
             Ordered(req,
                     Narrowed(catalog, req, env,
                              Combined(Retrieved(catalog, req, env,
                                                 Prefiltered(catalog, req, env))))))

----------------------------------------------------------------------------
(* Catalogs.  A drama is a dict; a title is a unique key.  A text field holds a  *)
(* str or is absent, a rating holds a number, is absent, or holds None (the      *)
(* scraper stores aggr.get("ratingValue"), None for a drama without ratings).    *)

DramaA == [Title |-> <<"a">>, Genre |-> <<"r", "o">>, Description |-> <<"x">>,
           rating_value |-> 9, rating_count |-> 5]
DramaB == [Title |-> <<"B">>, genres |-> <<"R", "o", "m">>, Description |-> <<"y">>,
           score |-> 7]
DramaC == [Title |-> <<"c">>, Genre |-> <<"r", "o">>, Description |-> <<"z">>,
           rating_value |-> None]
DramaD == [Title |-> <<"d">>, Genre |-> <<"h">>, rating_value |-> 8]

Catalogs ==
    {<<DramaA, DramaB>>, <<DramaB, DramaA, DramaD>>, <<DramaA, DramaC, DramaB>>}

\* the catalog and the reranker as Stage 1 and Stage 2 of app.py loaded them
EngineLoaded == metadata = <<DramaA, DramaB>> /\ use_reranker = TRUE

----------------------------------------------------------------------------
(* The state after AnalyticsTracker.__init__ on a fresh analytics_data directory *)

Idle == [w \in Workers |-> "idle"]
NoCall == [user_id |-> "", drama_title |-> None, action |-> ""]
Response(op, arg, val) == [op |-> op, arg |-> arg, val |-> val]
Document(doc) == [ok |-> TRUE, doc |-> doc]
Unparsable == [ok |-> FALSE, doc |-> EmptyDoc]

FreshStore ==
    /\ interactions = <<>>
    /\ search_log = <<>>
    /\ user_stats = Document(EmptyDoc)
    /\ now = 0
    /\ ret = Response("init", <<>>, None)
    /\ pc = Idle
    /\ call = [w \in Workers |-> NoCall]
    /\ stats = [w \in Workers |-> EmptyDoc]
    /\ stale = [w \in Workers |-> FALSE]
    /\ written = EmptyDoc

Init == FreshStore /\ EngineLoaded

workerVars == <<pc, call, stats, stale>>
engineVars == <<metadata, use_reranker>>

----------------------------------------------------------------------------
(* Operations, one request at a time *)

\* a slip in the mode: open(file, "w") and one write of a line
OverwriteLine(file, data) == <<data>>

\* open(file, "a") and one write of a line
AppendLine(file, data) == Append(file, data)

\* the clock advances between calls
Tick ==
    /\ now < MaxClock
    /\ now' = now + 1
    /\ ret' = Response("tick", <<>>, None)
    /\ UNCHANGED <<engineVars, interactions, search_log, user_stats, written, workerVars>>

\* log_search: one appended record, the id is returned
LogSearch(user_id, query, intent, results) ==
    /\ search_log' = AppendLine(search_log,
                                SearchData(user_id, query, intent, results, now, now))
    /\ ret' = Response("log_search", <<user_id, query>>, SearchId(now))
    /\ UNCHANGED <<engineVars, interactions, user_stats, written, now, workerVars>>

\* log_interaction run to completion: the append, then _update_user_stats
LogInteraction(user_id, drama_title, action, search_id) ==
    /\ pc = Idle
    /\ user_stats.ok
    /\ interactions' = AppendLine(interactions,
                                  InteractionData(user_id, drama_title, action, search_id, now))
    /\ user_stats' = Document(UpdatedStats(user_stats.doc, user_id, drama_title, action, now))
    /\ written' = user_stats'.doc
    /\ ret' = Response("log_interaction", <<user_id, drama_title, action, search_id>>, None)
    /\ UNCHANGED <<engineVars, search_log, now, workerVars>>

\* get_user_stats
GetUserStats(user_id) ==
    /\ user_stats.ok
    /\ ret' = Response("get_user_stats", <<user_id>>, UserStatsOf(user_stats.doc, user_id))
    /\ UNCHANGED <<engineVars, interactions, search_log, user_stats, written, now, workerVars>>

\* get_click_through_rate
GetClickThroughRate(search_id) ==
    /\ ret' = Response("get_click_through_rate", <<search_id>>, ClickThroughRate(search_id))
    /\ UNCHANGED <<engineVars, interactions, search_log, user_stats, written, now, workerVars>>

\* get_popular_dramas
GetPopularDramas(days, limit) ==
    /\ ret' = IF ScanRaises(interactions, days)
              THEN Response("get_popular_dramas_raised", <<days, limit>>, None)
              ELSE Response("get_popular_dramas", <<days, limit>>,
                            PopularDramas(days, limit))
    /\ UNCHANGED <<engineVars, interactions, search_log, user_stats, written, now, workerVars>>

\* get_trending_searches
GetTrendingSearches(days, limit) ==
    /\ ret' = IF ScanRaises(search_log, days)
              THEN Response("get_trending_searches_raised", <<days, limit>>, None)
              ELSE Response("get_trending_searches", <<days, limit>>,
                            TrendingSearches(days, limit))
    /\ UNCHANGED <<engineVars, interactions, search_log, user_stats, written, now, workerVars>>

\* get_analytics_summary
GetAnalyticsSummary(days) ==
    /\ ret' = IF ScanRaises(interactions, days) \/ ScanRaises(search_log, days)
              THEN Response("get_analytics_summary_raised", <<days>>, None)
              ELSE Response("get_analytics_summary", <<days>>, AnalyticsSummary(days))
    /\ UNCHANGED <<engineVars, interactions, search_log, user_stats, written, now, workerVars>>

\* a slip: an exception of log_search leaves recommend
RecommendLogUncaught(req, env) ==
    LET run == Recommendation(metadata, use_reranker, req, env)
        failed == ~run.raised /\ run.calls # <<>> /\ LogAttempted(req) /\ ~env.log_ok
    IN  /\ ret' = IF run.raised \/ failed THEN Response("recommend_raised", <<req, env>>, None)
                  ELSE Response("recommend", <<req, env>>, run)
        /\ search_log' =
               IF ~run.raised /\ run.logged
               THEN AppendLine(search_log,
                               SearchData(req.user_id, req.title, env.intent,
                                          Titles(run.response.recommendations), now, now))
               ELSE search_log
        /\ UNCHANGED <<engineVars, interactions, user_stats, written, now, workerVars>>

\* recommend(title, top_n, ...): the response, and the SearchEvent when user_id and
\* session_id are given and log_search succeeds
Recommend(req, env) ==
    LET run == Recommendation(metadata, use_reranker, req, env)
    IN  /\ ret' = IF run.raised THEN Response("recommend_raised", <<req, env>>, None)
                  ELSE Response("recommend", <<req, env>>, run)
        /\ search_log' =
               IF ~run.raised /\ run.logged
               THEN AppendLine(search_log,
                               SearchData(req.user_id, req.title, env.intent,
                                          Titles(run.response.recommendations), now, now))
               ELSE search_log
        /\ UNCHANGED <<engineVars, interactions, user_stats, written, now, workerVars>>

\* query_analyzer._calculate_dynamic_alpha(intent, entities), called on its own
CalculateDynamicAlpha(intent, entities) ==
    /\ ret' = Response("calculate_dynamic_alpha", <<intent, entities>>,
                       DynamicAlpha(intent, entities))
    /\ UNCHANGED <<engineVars, interactions, search_log, user_stats, written, now,
                   workerVars>>

\* query_analyzer.analyze(query), called on its own
AnalyzeQuery(query) ==
    /\ ret' = Response("analyze", query, Analyze(query, now))
    /\ UNCHANGED <<engineVars, interactions, search_log, user_stats, written, now,
                   workerVars>>

\* recommend(req.title, ...), the analysis of Stage 4.0 being that of the title
RecommendQuery(req, env) ==
    LET WithAnalysis(analysis) ==
            [env EXCEPT !.intent = analysis.intent,
                        !.entities = Present(analysis.entities),
                        !.confidence = analysis.confidence]
    IN  Recommend(req, WithAnalysis(Analyze(req.title, now)))

\* the calls still allowed by the bounds on the two logs
Budget(used) == Len(interactions) < used + MaxInteractions
SearchBudget(used) == Len(search_log) < used + MaxSearches

----------------------------------------------------------------------------
(* Spec: every operation, one request at a time, on one user and one drama *)

Next ==
    \/ \E r \in {<<>>, <<1>>} :
           SearchBudget(0) /\ LogSearch("u1", "romance", "genre_browse", r)
    \/ \E a \in {"click", "watchlist_add"}, s \in {None, 0} :
           Budget(0) /\ LogInteraction("u1", 1, a, s)
    \/ GetUserStats("u1")
    \/ \E s \in {None, 0} : GetClickThroughRate(s)
    \/ \E days \in 0 .. MaxDays, limit \in 0 .. MaxLimit : GetPopularDramas(days, limit)

Spec == Init /\ [][Next]_vars

(* AggregateSpec: interactions of every kind by two users on two dramas *)

AggregateNext ==
    \/ \E u \in Users, d \in Dramas, a \in Actions :
           Budget(0) /\ LogInteraction(u, d, a, None)
    \/ \E u \in Users : GetUserStats(u)

AggregateSpec == Init /\ [][AggregateNext]_vars

(* CtrSpec: searches and the interactions that reference them, as the clock runs *)

CtrNext ==
    \/ Tick
    \/ \E r \in ResultLists :
           SearchBudget(0) /\ LogSearch("u1", "romance", "genre_browse", r)
    \/ \E a \in {"click", "view_details"}, s \in {None, 0, 1} :
           Budget(0) /\ LogInteraction("u1", 1, a, s)
    \/ \E s \in SearchIds : GetClickThroughRate(s)

CtrSpec == Init /\ [][CtrNext]_vars

(* PopularSpec: the popularity report for windows of one day and more, over a log *)
(* written as the clock runs                                                    *)

PopularNext ==
    \/ Tick
    \/ \E d \in Dramas, a \in {"click", "watchlist_add", "view_details"} :
           Budget(0) /\ LogInteraction("u1", d, a, None)
    \/ \E days \in 1 .. MaxDays, limit \in 0 .. MaxLimit : GetPopularDramas(days, limit)

PopularSpec == Init /\ [][PopularNext]_vars

(* RingSpec: clicks by a user whose earlier sessions left clicked_dramas one short *)
(* of its cap; the files are those the earlier calls wrote                         *)

\* the aggregate that MaxClicked - 1 clicks on as many dramas leave behind
RingStats ==
    [DefaultStats EXCEPT !.total_clicks = MaxClicked - 1,
                         !.interaction_count = MaxClicked - 1,
                         !.last_active = 0,
                         !.clicked_dramas = [i \in 1 .. (MaxClicked - 1) |-> i]]

RingHistory == [i \in 1 .. (MaxClicked - 1) |-> InteractionData("u1", i, "click", None, 0)]
RingDramas == {1, 2, MaxClicked - 1, MaxClicked, MaxClicked + 1, MaxClicked + 2}

RingInit ==
    /\ interactions = RingHistory
    /\ search_log = <<>>
    /\ user_stats = Document("u1" :> RingStats)
    /\ written = ("u1" :> RingStats)
    /\ now = 0
    /\ ret = Response("init", <<>>, None)
    /\ pc = Idle
    /\ call = [w \in Workers |-> NoCall]
    /\ stats = [w \in Workers |-> EmptyDoc]
    /\ stale = [w \in Workers |-> FALSE]
    /\ EngineLoaded

RingNext ==
    \/ \E d \in RingDramas, a \in {"click", "view_details"} :
           Budget(MaxClicked - 1) /\ LogInteraction("u1", d, a, None)
    \/ GetUserStats("u1")

RingSpec == RingInit /\ [][RingNext]_vars

(* WindowSpec: the three windowed reports, for windows of zero days and more, over *)
(* logs written as the clock runs                                                *)

WindowNext ==
    \/ Tick
    \/ SearchBudget(0) /\ LogSearch("u1", <<"g">>, "genre_browse", <<>>)
    \/ \E a \in {"click", "watchlist_add"} : Budget(0) /\ LogInteraction("u1", 1, a, None)
    \/ \E days \in 0 .. MaxDays : GetPopularDramas(days, MaxLimit)
    \/ \E days \in 0 .. MaxDays : GetTrendingSearches(days, MaxLimit)
    \/ \E days \in 0 .. MaxDays : GetAnalyticsSummary(days)

WindowSpec == Init /\ [][WindowNext]_vars

(* MalformedSpec: the reports over logs that hold one line an earlier session or *)
(* another program left behind, well-formed or malformed                        *)

FoundInteraction == InteractionData("u2", 2, "click", 0, 0)
FoundSearch == SearchData("u2", <<"k">>, "vague", <<2>>, 0, 0)

FoundLines(data) == {data, NotJson, WithoutTimestamp(data), WithBadTimestamp(data)}

MalformedInit ==
    /\ interactions \in {<<line>> : line \in FoundLines(FoundInteraction)}
    /\ search_log \in {<<line>> : line \in FoundLines(FoundSearch)}
    /\ user_stats = Document("u2" :> UserStatsAfter(DefaultStats, 2, "click", 0))
    /\ written = user_stats.doc
    /\ now = 0
    /\ ret = Response("init", <<>>, None)
    /\ pc = Idle
    /\ call = [w \in Workers |-> NoCall]
    /\ stats = [w \in Workers |-> EmptyDoc]
    /\ stale = [w \in Workers |-> FALSE]
    /\ EngineLoaded

MalformedNext ==
    \/ Tick
    \/ SearchBudget(1) /\ LogSearch("u1", <<"g">>, "genre_browse", <<1>>)
    \/ \E s \in {None, 0} : Budget(1) /\ LogInteraction("u1", 1, "click", s)
    \/ \E days \in 1 .. MaxDays : GetPopularDramas(days, MaxLimit)
    \/ \E days \in 1 .. MaxDays : GetTrendingSearches(days, MaxLimit)
    \/ \E days \in 1 .. MaxDays : GetAnalyticsSummary(days)
    \/ GetClickThroughRate(0)

MalformedSpec == MalformedInit /\ [][MalformedNext]_vars

(* Requests and answers for the specifications of recommend *)

\* the defaults of recommend's signature; "" and <<>> stand for None
Request(title, top_n) ==
    [title |-> title, top_n |-> top_n, filters |-> NoFilters, top_rated |-> FALSE,
     sort_by |-> "", sort_order |-> "desc", similar_to |-> <<>>,
     user_id |-> "", session_id |-> ""]

NoEntities == [actors |-> FALSE, years |-> FALSE, emotions |-> FALSE]

Orderings(n) ==
    {p \in [1 .. n -> 1 .. n] : \A i, j \in 1 .. n : p[i] = p[j] => i = j}

\* the rankings of the catalog an inner-product index can return: every drama
\* once, the scores not increasing
Rankings(catalog, scores) ==
    {[i \in 1 .. Len(catalog) |-> [idx |-> p[i], score |-> sc[i]]] :
        p \in Orderings(Len(catalog)),
        sc \in {f \in [1 .. Len(catalog) -> scores] :
                   \A i \in 1 .. (Len(catalog) - 1) : f[i] >= f[i + 1]}}

\* reranker.predict answers with scores that turn the list around, or raises
Reranks(catalog) ==
    {[raises |-> b, scores |-> [i \in 1 .. Len(catalog) |-> i]] : b \in BOOLEAN}

\* the answers of a call whose query analysis found `intent` and no entities;
\* fuzzy_score is the score process.extractOne gives the title against the titles
\* of the filtered corpus when no title equals it
Answers(intent, ranking, scores, rerank) ==
    [intent |-> intent, entities |-> NoEntities, confidence |-> 90,
     fuzzy_score |-> 0, ranking |-> ranking, scores |-> scores,
     sim_ranking |-> ranking, rerank |-> rerank, log_ok |-> TRUE]

\* the state after the import of app.py, for a catalog of Catalogs, the reranker
\* loaded or not
RecommendInit ==
    /\ FreshStore
    /\ metadata \in Catalogs
    /\ use_reranker \in BOOLEAN

(* LoggingSpec: recommend with and without user and session id, log_search       *)
(* succeeding or failing                                                         *)

LoggingNext ==
    \E genre \in {<<>>, <<"r", "o">>, <<"q">>}, top_rated \in BOOLEAN,
       ids \in {<<"", "">>, <<"u1", "">>, <<"u1", "s1">>}, log_ok \in BOOLEAN :
        /\ ids = <<"u1", "s1">> /\ log_ok => SearchBudget(0)
        /\ Recommend([Request(<<"a">>, MaxTopN) EXCEPT !.filters.genre = genre,
                                                       !.top_rated = top_rated,
                                                       !.user_id = ids[1],
                                                       !.session_id = ids[2]],
                     [Answers("vague",
                              [i \in 1 .. Len(metadata) |-> [idx |-> i, score |-> 5]],
                              [i \in 1 .. Len(metadata) |-> i],
                              [raises |-> FALSE,
                               scores |-> [i \in 1 .. Len(metadata) |-> i]])
                          EXCEPT !.log_ok = log_ok])

LoggingSpec == RecommendInit /\ [][LoggingNext]_vars

(* FilterSpec: recommend under substring and minimum filters, on catalogs with   *)
(* alias fields, absent ratings and ratings that are None; the index ranks the   *)
(* whole catalog, filtered or not                                                *)

FilterNext ==
    \E genre \in {<<>>, <<"R", "O">>, <<"m">>, <<"q">>}, rating_value \in {None, 8, 10},
       rating_count \in {None, 5}, forward \in BOOLEAN, rerank \in Reranks(metadata) :
        Recommend([Request(<<"a">>, MaxTopN) EXCEPT !.filters.genre = genre,
                                                   !.filters.rating_value = rating_value,
                                                   !.filters.rating_count = rating_count],
                  Answers("genre_browse",
                          [i \in 1 .. Len(metadata) |->
                              [idx |-> IF forward THEN i ELSE Len(metadata) + 1 - i,
                               score |-> 5]],
                          [i \in 1 .. Len(metadata) |-> i], rerank))

FilterSpec == RecommendInit /\ [][FilterNext]_vars

(* FusionSpec: recommend without filters over rankings and lexical scores of the *)
(* whole catalog, for two values of alpha; top_n = 1 - CandidateMargin leaves    *)
(* each source one candidate, so that a drama can be in one source only          *)

LexicalScores(n) ==
    {[i \in 1 .. n |-> 0], [i \in 1 .. n |-> 2 * i], [i \in 1 .. n |-> 2 * (n + 1 - i)]}

FusionNext ==
    \E top_n \in {MaxTopN, 1 - CandidateMargin}, years \in BOOLEAN,
       ranking \in Rankings(metadata, {9, 0}), scores \in LexicalScores(Len(metadata)) :
        Recommend(Request(<<"a">>, top_n),
                  [Answers("similar_to", ranking, scores,
                           [raises |-> FALSE, scores |-> [i \in 1 .. Len(metadata) |-> i]])
                       EXCEPT !.entities.years = years])

FusionSpec == RecommendInit /\ [][FusionNext]_vars

(* StrategySpec: recommend for every intent analyze can detect (its query is     *)
(* lower-cased before the SPECIFIC_TITLE pattern, which asks for capitals, is    *)
(* tried), the reranker loaded or not, answering or raising                      *)

DetectedIntents == QueryIntents \ {"specific_title"}

StrategyNext ==
    \E intent \in DetectedIntents, top_n \in 1 .. MaxTopN, forward \in BOOLEAN,
       rerank \in Reranks(metadata) :
        Recommend(Request(<<"a">>, top_n),
                  Answers(intent,
                          [i \in 1 .. Len(metadata) |->
                              [idx |-> IF forward THEN i ELSE Len(metadata) + 1 - i,
                               score |-> 5]],
                          [i \in 1 .. Len(metadata) |-> i], rerank))

StrategySpec == RecommendInit /\ [][StrategyNext]_vars

(* AnalyzerSpec: the query analyzer called on its own and by recommend *)

EntityFlags == [actors : BOOLEAN, years : BOOLEAN, emotions : BOOLEAN]

\* queries in upper and lower case, with and without names, years and emotions
AnalyzerQueries ==
    {
     \* "something like Goblin"
     <<"s", "o", "m", "e", "t", "h", "i", "n", "g", " ", "l", "i", "k", "e", " ", "G", "o", "b", "l", "i", "n">>,
     \* "best 2023 drama"
     <<"b", "e", "s", "t", " ", "2", "0", "2", "3", " ", "d", "r", "a", "m", "a">>,
     \* "2023 drama"
     <<"2", "0", "2", "3", " ", "d", "r", "a", "m", "a">>,
     \* "sad emotional drama"
     <<"s", "a", "d", " ", "e", "m", "o", "t", "i", "o", "n", "a", "l", " ", "d", "r", "a", "m", "a">>,
     \* "sad drama"
     <<"s", "a", "d", " ", "d", "r", "a", "m", "a">>,
     \* "short drama"
     <<"s", "h", "o", "r", "t", " ", "d", "r", "a", "m", "a">>,
     \* "trending"
     <<"t", "r", "e", "n", "d", "i", "n", "g">>,
     \* "good drama"
     <<"g", "o", "o", "d", " ", "d", "r", "a", "m", "a">>,
     \* "Crash Landing on You"
     <<"C", "r", "a", "s", "h", " ", "L", "a", "n", "d", "i", "n", "g", " ", "o", "n", " ", "Y", "o", "u">>,
     \* "romantic comedy"
     <<"r", "o", "m", "a", "n", "t", "i", "c", " ", "c", "o", "m", "e", "d", "y">>,
     \* "action thriller"
     <<"a", "c", "t", "i", "o", "n", " ", "t", "h", "r", "i", "l", "l", "e", "r">>,
     \* "xyz"
     <<"x", "y", "z">>,
     \* "Park Bo Gum drama"
     <<"P", "a", "r", "k", " ", "B", "o", " ", "G", "u", "m", " ", "d", "r", "a", "m", "a">>,
     \* "with Lee Min"
     <<"w", "i", "t", "h", " ", "L", "e", "e", " ", "M", "i", "n">>,
     \* "funny drama"
     <<"f", "u", "n", "n", "y", " ", "d", "r", "a", "m", "a">>,
     \* "  Sad  Romance "
     <<" ", " ", "S", "a", "d", " ", " ", "R", "o", "m", "a", "n", "c", "e", " ">>,
     \* "under 10 episodes"
     <<"u", "n", "d", "e", "r", " ", "1", "0", " ", "e", "p", "i", "s", "o", "d", "e", "s">>,
     \* "best korean drama 2020"
     <<"b", "e", "s", "t", " ", "k", "o", "r", "e", "a", "n", " ", "d", "r", "a", "m", "a", " ", "2", "0", "2", "0">>,
     \* "Lee Min Ho"
     <<"L", "e", "e", " ", "M", "i", "n", " ", "H", "o">>,
     \* "funny Park Bo Gum 2021"
     <<"f", "u", "n", "n", "y", " ", "P", "a", "r", "k", " ", "B", "o", " ", "G", "u", "m", " ", "2", "0", "2", "1">>,
     \* "Goblin"
     <<"G", "o", "b", "l", "i", "n">>,
     \* "best best"
     <<"b", "e", "s", "t", " ", "b", "e", "s", "t">>}

\* the queries sent to recommend
RankedQueries ==
    {<<"s", "a", "d", " ", "e", "m", "o", "t", "i", "o", "n", "a", "l", " ", "d", "r", "a", "m", "a">>,
     <<"s", "a", "d", " ", "d", "r", "a", "m", "a">>,
     <<"P", "a", "r", "k", " ", "B", "o", " ", "G", "u", "m", " ", "d", "r", "a", "m", "a">>,
     <<"b", "e", "s", "t", " ", "2", "0", "2", "3", " ", "d", "r", "a", "m", "a">>}

AnalyzerNext ==
    \/ \E intent \in QueryIntents \cup {"unlisted"}, entities \in EntityFlags :
           CalculateDynamicAlpha(intent, entities)
    \/ \E query \in AnalyzerQueries : AnalyzeQuery(query)
    \/ \E query \in RankedQueries, forward \in BOOLEAN, rerank \in Reranks(metadata) :
           RecommendQuery(Request(query, MaxTopN),
                          Answers("", [i \in 1 .. Len(metadata) |->
                                          [idx |-> IF forward THEN i
                                                   ELSE Len(metadata) + 1 - i,
                                           score |-> 5]],
                                  [i \in 1 .. Len(metadata) |-> i], rerank))

AnalyzerSpec == Init /\ [][AnalyzerNext]_vars

(* SortSpec: recommend with and without a sort override, in both directions, and   *)
(* with the top-rated sort; the reranker loaded or not, answering or raising      *)

SortNext ==
    \E sort \in {<<"", "desc", FALSE>>, <<"rating_count", "desc", FALSE>>,
                 <<"rating_count", "asc", FALSE>>, <<"", "desc", TRUE>>},
       top_n \in 1 .. MaxTopN, forward \in BOOLEAN, rerank \in Reranks(metadata) :
        Recommend([Request(<<"a">>, top_n) EXCEPT !.sort_by = sort[1],
                                                 !.sort_order = sort[2],
                                                 !.top_rated = sort[3]],
                  Answers("vague",
                          [i \in 1 .. Len(metadata) |->
                              [idx |-> IF forward THEN i ELSE Len(metadata) + 1 - i,
                               score |-> 5]],
                          [i \in 1 .. Len(metadata) |-> i], rerank))

SortSpec == RecommendInit /\ [][SortNext]_vars

(* SimilarSpec: recommend with similar_to on a catalog larger than the filtered   *)
(* corpus plus SimilarMargin, so that the similarity search can miss dramas of   *)
(* the filtered corpus (the dramas of one genre); similar_to is a title in other  *)
(* letter case, the query text itself (a title followed by a blank, which no     *)
(* title equals), or no title                                                    *)

LargeCatalog ==
    <<DramaA, DramaC>>
        \o [i \in 1 .. (SimilarMargin + 2) |->
               [Title |-> <<"f", Lowercase[i]>>, Genre |-> <<"h">>, Description |-> <<"w">>]]

SimilarInit == FreshStore /\ metadata = LargeCatalog /\ use_reranker \in BOOLEAN

\* the index's answers to the similarity query: the catalog in its order, the second
\* drama moved to the end, or the first two moved to the end
SimilarRankings ==
    LET n == Len(LargeCatalog)
    IN  {[i \in 1 .. n |-> [idx |-> i, score |-> 5]],
         [i \in 1 .. n |-> [idx |-> IF i = 1 THEN 1 ELSE IF i = n THEN 2 ELSE i + 1,
                            score |-> 5]],
         [i \in 1 .. n |-> [idx |-> IF i = n - 1 THEN 1 ELSE IF i = n THEN 2 ELSE i + 2,
                            score |-> 5]]}

SimilarNext ==
    \E texts \in {<<<<"a">>, <<>>>>, <<<<"a">>, <<"A">>>>, <<<<"a", " ">>, <<"a", " ">>>>,
                  <<<<"c">>, <<"z">>>>},
       top_n \in 1 .. MaxTopN, fuzzy_score \in {40, 90}, forward \in BOOLEAN,
       sim_ranking \in SimilarRankings :
        Recommend([Request(texts[1], top_n) EXCEPT !.similar_to = texts[2],
                                                  !.filters.genre = <<"r", "o">>],
                  [Answers("vague",
                           [i \in 1 .. Len(metadata) |->
                               [idx |-> IF forward THEN i ELSE Len(metadata) + 1 - i,
                                score |-> 5]],
                           [i \in 1 .. Len(metadata) |-> i],
                           [raises |-> FALSE, scores |-> [i \in 1 .. Len(metadata) |-> i]])
                       EXCEPT !.fuzzy_score = fuzzy_score, !.sim_ranking = sim_ranking])

SimilarSpec == SimilarInit /\ [][SimilarNext]_vars

(* TrendingSpec: the trending report over searches that differ in letter case and in *)
(* intent, the log starting with a search an earlier session wrote               *)

Queries == {<<"g">>, <<"G">>, <<"k">>}
TrendingHistory == <<SearchData("u2", <<"K">>, "vague", <<>>, 0, 0)>>

TrendingInit ==
    /\ interactions = <<>>
    /\ search_log = TrendingHistory
    /\ user_stats = Document(EmptyDoc)
    /\ written = EmptyDoc
    /\ now = 0
    /\ ret = Response("init", <<>>, None)
    /\ pc = Idle
    /\ call = [w \in Workers |-> NoCall]
    /\ stats = [w \in Workers |-> EmptyDoc]
    /\ stale = [w \in Workers |-> FALSE]
    /\ EngineLoaded

TrendingNext ==
    \/ Tick
    \/ \E q \in Queries, i \in {"genre_browse", "vague"} :
           SearchBudget(Len(TrendingHistory)) /\ LogSearch("u1", q, i, <<>>)
    \/ \E days \in 1 .. MaxDays, limit \in 0 .. MaxLimit : GetTrendingSearches(days, limit)

TrendingSpec == TrendingInit /\ [][TrendingNext]_vars

----------------------------------------------------------------------------
(* log_interaction on the thread pool: its file operations interleave *)

\* lines 108-121: the record is built and appended, _update_user_stats is entered
BeginLogInteraction(w, user_id, drama_title, action, search_id) ==
    /\ pc[w] = "idle"
    /\ interactions' = AppendLine(interactions,
                                  InteractionData(user_id, drama_title, action, search_id, now))
    /\ call' = [call EXCEPT ![w] = [user_id |-> user_id, drama_title |-> drama_title,
                                    action |-> action]]
    /\ pc' = [pc EXCEPT ![w] = "load"]
    /\ UNCHANGED <<engineVars, search_log, user_stats, written, now, ret, stats, stale>>

\* lines 128-162: _load_user_stats, then the update of the local dict;
\* json.load raises on a file that does not parse and the call ends there
LoadUserStats(w) ==
    /\ pc[w] = "load"
    /\ IF user_stats.ok
       THEN /\ stats' = [stats EXCEPT ![w] =
                            UpdatedStats(user_stats.doc, call[w].user_id,
                                         call[w].drama_title, call[w].action, now)]
            /\ pc' = [pc EXCEPT ![w] = "open"]
            /\ UNCHANGED <<call, ret>>
       ELSE /\ pc' = [pc EXCEPT ![w] = "idle"]
            /\ call' = [call EXCEPT ![w] = NoCall]
            /\ ret' = Response("log_interaction_raised", <<call[w].user_id>>, None)
            /\ UNCHANGED stats
    /\ UNCHANGED <<engineVars, interactions, search_log, user_stats, written, now, stale>>

\* line 382: open(file, "w") truncates the document
OpenUserStats(w) ==
    /\ pc[w] = "open"
    /\ user_stats' = Unparsable
    /\ stale' = [stale EXCEPT ![w] = FALSE]
    /\ pc' = [pc EXCEPT ![w] = "dump"]
    /\ UNCHANGED <<engineVars, interactions, search_log, written, now, ret, call, stats>>

\* what the file holds after a dump from offset 0: the dumped document, or, when
\* another worker's dump landed since the open and was longer, that one's tail too
Dumped(doc, is_stale) ==
    IF is_stale THEN {Document(doc), Unparsable} ELSE {Document(doc)}

\* line 383: json.dump and close; log_interaction returns
DumpUserStats(w) ==
    /\ pc[w] = "dump"
    /\ user_stats' \in Dumped(stats[w], stale[w])
    /\ written' = stats[w]
    /\ stale' = [x \in Workers |-> IF x # w /\ pc[x] = "dump" THEN TRUE ELSE stale[x]]
    /\ pc' = [pc EXCEPT ![w] = "idle"]
    /\ ret' = Response("log_interaction", <<call[w].user_id>>, None)
    /\ call' = [call EXCEPT ![w] = NoCall]
    /\ stats' = [stats EXCEPT ![w] = EmptyDoc]
    /\ UNCHANGED <<engineVars, interactions, search_log, now>>

\* get_user_stats on the thread pool: json.load raises on a file that does not parse
ReadUserStats(user_id) ==
    /\ ret' = IF user_stats.ok
              THEN Response("get_user_stats", <<user_id>>,
                            UserStatsOf(user_stats.doc, user_id))
              ELSE Response("get_user_stats_raised", <<user_id>>, None)
    /\ UNCHANGED <<engineVars, interactions, search_log, user_stats, written, now, workerVars>>

ConcNext ==
    \/ \E w \in Workers, u \in Users, a \in {"click", "watchlist_add"} :
           Budget(0) /\ BeginLogInteraction(w, u, 1, a, None)
    \/ \E w \in Workers : LoadUserStats(w)
    \/ \E w \in Workers : OpenUserStats(w)
    \/ \E w \in Workers : DumpUserStats(w)
    \/ \E u \in Users : ReadUserStats(u)

ConcSpec == Init /\ [][ConcNext]_vars

----------------------------------------------------------------------------
(* What the claims speak of *)

IsPrefix(s, t) == Len(s) <= Len(t) /\ SubSeq(t, 1, Len(s)) = s
NoDuplicates(s) == \A i, j \in 1 .. Len(s) : s[i] = s[j] => i = j

\* a step that appended one InteractionEvent
Logged == Len(interactions') = Len(interactions) + 1
Event == Last(interactions')

\* a user's aggregate in a document, the default one when the user has none
AggregateOf(doc, u) == IF u \in DOMAIN doc THEN doc[u] ELSE DefaultStats

\* the positions of a user's events in the interaction log
EventsOf(u) == {i \in 1 .. Len(interactions) : interactions[i].user_id = u}
EventsOfKind(u, a) == {i \in EventsOf(u) : interactions[i].action = a}

----------------------------------------------------------------------------
\* C1: once every concurrent logInteraction call has finished, the document parses and
\* each user's interaction_count, total_clicks and watchlist_adds equal the numbers of
\* that user's events, click events and watchlist_add events in the interaction log.
C1_NoLostUpdate ==
    pc = Idle =>
        /\ user_stats.ok
        /\ \A u \in Users :
               /\ AggregateOf(user_stats.doc, u).interaction_count = Cardinality(EventsOf(u))
               /\ AggregateOf(user_stats.doc, u).total_clicks =
                      Cardinality(EventsOfKind(u, "click"))
               /\ AggregateOf(user_stats.doc, u).watchlist_adds =
                      Cardinality(EventsOfKind(u, "watchlist_add"))

----------------------------------------------------------------------------
\* C2: no two SearchEvents in the search log share a search_id, so every logSearch
\* call returned an id that no other call returned.
C2_UniqueSearchIds ==
    \A i, j \in 1 .. Len(search_log) :
        search_log[i].search_id = search_log[j].search_id => i = j

----------------------------------------------------------------------------
\* C3: when a logInteraction call for user u saves the document, the aggregate of
\* every other user v in it is the one last written for v, also when calls for u and
\* for v overlap.
C3_OtherUsersUntouched ==
    [][\A w \in Workers :
          (pc[w] = "dump" /\ pc'[w] = "idle" /\ user_stats'.ok) =>
              \A v \in Users \ {call[w].user_id} :
                  UserStatsOf(user_stats'.doc, v) = UserStatsOf(written, v)]_vars

----------------------------------------------------------------------------
\* C4: both logs are append-only: a logSearch adds exactly one SearchEvent and a
\* logInteraction exactly one InteractionEvent, at the end of its log and holding the
\* call's arguments; no operation, the reporting reads included, removes, moves or
\* changes a record written before.
C4_AppendOnly ==
    [][/\ IsPrefix(search_log, search_log')
       /\ IsPrefix(interactions, interactions')
       /\ Len(search_log') = Len(search_log) + (IF ret'.op = "log_search" THEN 1 ELSE 0)
       /\ Len(interactions') =
              Len(interactions) + (IF ret'.op = "log_interaction" THEN 1 ELSE 0)
       /\ ret'.op = "log_search" =>
              /\ Last(search_log').search_id = ret'.val
              /\ Last(search_log').user_id = ret'.arg[1]
       /\ ret'.op = "log_interaction" =>
              /\ Event.user_id = ret'.arg[1]
              /\ Event.drama_title = ret'.arg[2]
              /\ Event.action = ret'.arg[3]
              /\ Event.search_id = ret'.arg[4]]_vars

\* both logs hold two records and a report has just been read
C4_Witness ==
    /\ Len(search_log) = 2
    /\ Len(interactions) = 2
    /\ ret.op = "get_popular_dramas"
    /\ ret.val # <<>>

----------------------------------------------------------------------------
\* C5: clicked_dramas never holds more than 100 entries nor an entry twice; a click on
\* an item not in the list puts it at the end and, when the list was full, drops the
\* oldest entry; a click on an item in the list leaves the list as it was.
C5_ClickedRing ==
    /\ [](\A u \in DOMAIN user_stats.doc :
              /\ Len(user_stats.doc[u].clicked_dramas) <= 100
              /\ NoDuplicates(user_stats.doc[u].clicked_dramas))
    /\ [][(Logged /\ Event.action = "click") =>
             LET old == AggregateOf(user_stats.doc, Event.user_id).clicked_dramas
                 new == AggregateOf(user_stats'.doc, Event.user_id).clicked_dramas
             IN  IF Contains(old, Event.drama_title) THEN new = old
                 ELSE IF Len(old) < 100 THEN new = Append(old, Event.drama_title)
                 ELSE new = Append(Tail(old), Event.drama_title)]_vars

\* the list is full, its two oldest entries were evicted and the first of them was
\* clicked again
C5_Witness ==
    /\ "u1" \in DOMAIN user_stats.doc
    /\ Len(user_stats.doc["u1"].clicked_dramas) = 100
    /\ Head(user_stats.doc["u1"].clicked_dramas) = 3
    /\ Last(user_stats.doc["u1"].clicked_dramas) = 1

----------------------------------------------------------------------------
\* the last watchlist action of user u on drama d in the log, "" when there is none
LastWatchlistAction(u, d) ==
    LET hits == {i \in EventsOf(u) :
                    /\ interactions[i].drama_title = d
                    /\ interactions[i].action \in {"watchlist_add", "watchlist_remove"}}
    IN  IF hits = {} THEN ""
        ELSE interactions[CHOOSE i \in hits : \A j \in hits : j <= i].action

\* C6: the watchlist is an insertion-ordered set: watchlist_add puts an absent item at
\* the end and changes nothing for a present one, watchlist_remove takes a present
\* item out and changes nothing otherwise; no item is in it twice, and an item is in
\* it exactly when the user's last watchlist action on it was a watchlist_add.
C6_Watchlist ==
    /\ [](\A u \in Users :
              LET watchlist == AggregateOf(user_stats.doc, u).watchlist
              IN  /\ NoDuplicates(watchlist)
                  /\ \A d \in Dramas :
                         Contains(watchlist, d) <=> LastWatchlistAction(u, d) = "watchlist_add")
    /\ [][Logged =>
             LET old == AggregateOf(user_stats.doc, Event.user_id).watchlist
                 new == AggregateOf(user_stats'.doc, Event.user_id).watchlist
                 Other(x) == x # Event.drama_title
             IN  /\ Event.action = "watchlist_add" =>
                        new = IF Contains(old, Event.drama_title) THEN old
                              ELSE old \o <<Event.drama_title>>
                 /\ Event.action = "watchlist_remove" => new = SelectSeq(old, Other)
                 /\ Event.action \notin {"watchlist_add", "watchlist_remove"} => new = old]_vars

\* a user added two items and removed the first one again
C6_Witness ==
    /\ AggregateOf(user_stats.doc, "u1").watchlist = <<2>>
    /\ LastWatchlistAction("u1", 1) = "watchlist_remove"

----------------------------------------------------------------------------
\* C7: a user has an aggregate exactly from the first logInteraction on; every call
\* adds 1 to interaction_count, 1 to total_clicks iff it is a click and 1 to
\* watchlist_adds iff it is a watchlist_add, whether or not the item was seen before;
\* getUserStats of a user without events returns the empty aggregate.
C7_Counters ==
    /\ [](\A u \in Users : u \in DOMAIN user_stats.doc <=> EventsOf(u) # {})
    /\ []((ret.op = "get_user_stats" /\ EventsOf(ret.arg[1]) = {}) => ret.val = <<>>)
    /\ [][Logged =>
             LET old == AggregateOf(user_stats.doc, Event.user_id)
                 new == AggregateOf(user_stats'.doc, Event.user_id)
             IN  /\ Event.user_id \in DOMAIN user_stats'.doc
                 /\ new.interaction_count = old.interaction_count + 1
                 /\ new.total_clicks =
                        old.total_clicks + (IF Event.action = "click" THEN 1 ELSE 0)
                 /\ new.watchlist_adds =
                        old.watchlist_adds + (IF Event.action = "watchlist_add" THEN 1 ELSE 0)]_vars

\* a user clicked the same item twice and rated it
C7_Witness ==
    /\ AggregateOf(user_stats.doc, "u1").total_clicks = 2
    /\ Len(AggregateOf(user_stats.doc, "u1").clicked_dramas) = 1
    /\ AggregateOf(user_stats.doc, "u1").interaction_count = 3
    /\ ret.op = "get_user_stats"
    /\ ret.arg = <<"u2">>
    /\ ret.val = <<>>

----------------------------------------------------------------------------
\* the positions of the click events that reference a search id
ClicksOn(search_id) ==
    {i \in 1 .. Len(interactions) :
        interactions[i].action = "click" /\ interactions[i].search_id = search_id}

\* the positions of the SearchEvents with a search id
SearchesWith(search_id) ==
    {i \in 1 .. Len(search_log) : search_log[i].search_id = search_id}

\* C8: getClickThroughRate(searchId) is the number of click events that reference
\* searchId divided by the result_count of the SearchEvent with that id, and 0 when
\* there is no such SearchEvent or its result_count is 0.
C8_ClickThroughRate ==
    ret.op = "get_click_through_rate" =>
        LET clicks == Cardinality(ClicksOn(ret.arg[1]))
        IN  /\ SearchesWith(ret.arg[1]) = {} => ret.val.num = 0
            /\ \A i \in SearchesWith(ret.arg[1]) :
                   IF search_log[i].result_count = 0 THEN ret.val.num = 0
                   ELSE ret.val.num * search_log[i].result_count = clicks * ret.val.den

----------------------------------------------------------------------------
\* C9: the value returned by get_click_through_rate lies between 0.0 and 1.0.
C9_RateWithinUnit ==
    ret.op = "get_click_through_rate" =>
        /\ 0 <= ret.val.num
        /\ ret.val.num <= ret.val.den

----------------------------------------------------------------------------
\* the events inside the trailing window of a read of `days` days
InWindow(days) ==
    {i \in 1 .. Len(interactions) : interactions[i].timestamp >= now - days}

Clicks(days, d) ==
    Cardinality({i \in InWindow(days) : /\ interactions[i].drama_title = d
                                         /\ interactions[i].action = "click"})

WatchlistAdds(days, d) ==
    Cardinality({i \in InWindow(days) : /\ interactions[i].drama_title = d
                                         /\ interactions[i].action = "watchlist_add"})

Score(days, d) == Clicks(days, d) * 1 + WatchlistAdds(days, d) * 3

\* the position of the first event of drama d in the window whose action is in `kinds`
FirstAppearance(days, d, kinds) ==
    LET hits == {i \in InWindow(days) : /\ interactions[i].drama_title = d
                                         /\ interactions[i].action \in kinds}
    IN  CHOOSE i \in hits : \A j \in hits : i <= j

\* d ranks ahead of e: the higher score, or the same score and the earlier appearance
Ahead(days, d, e, kinds) ==
    \/ Score(days, d) > Score(days, e)
    \/ /\ Score(days, d) = Score(days, e)
       /\ FirstAppearance(days, d, kinds) < FirstAppearance(days, e, kinds)

\* a report r for (days, limit): every entry carries its drama's score and counts, the
\* entries are in rank order, at most `limit`, and a drama of `listed` that is left
\* out ranks behind every entry of a full report
IsRanking(r, days, limit, listed, kinds) ==
    /\ Len(r) <= limit
    /\ \A k \in 1 .. Len(r) :
           /\ \E i \in InWindow(days) : interactions[i].drama_title = r[k].drama_title
           /\ r[k].score = Score(days, r[k].drama_title)
           /\ r[k].click_count = Clicks(days, r[k].drama_title)
           /\ r[k].watchlist_count = WatchlistAdds(days, r[k].drama_title)
    /\ \A j, k \in 1 .. Len(r) :
           j < k => Ahead(days, r[j].drama_title, r[k].drama_title, kinds)
    /\ \A d \in listed :
           (\A k \in 1 .. Len(r) : r[k].drama_title # d) =>
               /\ Len(r) = limit
               /\ \A k \in 1 .. Len(r) : Ahead(days, r[k].drama_title, d, kinds)

\* the dramas with a click or a watchlist_add in the window
Scored(days) == {d \in Dramas : Clicks(days, d) + WatchlistAdds(days, d) > 0}

----------------------------------------------------------------------------
\* the SearchEvents inside the trailing window of a read of `days` days
SearchesInWindow(days) ==
    {i \in 1 .. Len(search_log) : search_log[i].timestamp >= now - days}

\* those of them whose lower-cased query is q
Occurrences(days, q) ==
    {i \in SearchesInWindow(days) : Lower(search_log[i].query) = q}

----------------------------------------------------------------------------
\* C12: for every window of days >= 0, zero included, a windowed report counts only
\* the events that are not older than `days` days at the time of the call: the
\* popularity report carries the in-window clicks and watchlist adds of each item, the
\* trending report the in-window occurrences of each query, the summary the numbers
\* of in-window interactions and searches.
C12_OnlyWindowCounted ==
    /\ (ret.op = "get_popular_dramas" /\ ret.arg[1] >= 0) =>
           \A k \in 1 .. Len(ret.val) :
               /\ ret.val[k].click_count = Clicks(ret.arg[1], ret.val[k].drama_title)
               /\ ret.val[k].watchlist_count =
                      WatchlistAdds(ret.arg[1], ret.val[k].drama_title)
    /\ (ret.op = "get_trending_searches" /\ ret.arg[1] >= 0) =>
           \A k \in 1 .. Len(ret.val) :
               ret.val[k].count = Cardinality(Occurrences(ret.arg[1], ret.val[k].query))
    /\ (ret.op = "get_analytics_summary" /\ ret.arg[1] >= 0) =>
           /\ ret.val.total_interactions = Cardinality(InWindow(ret.arg[1]))
           /\ ret.val.total_searches = Cardinality(SearchesInWindow(ret.arg[1]))

----------------------------------------------------------------------------
\* C13: a reporting read that runs while logInteraction calls are writing never
\* fails and never sees a partially written document: getUserStats returns the
\* user's aggregate of the last completely saved document.
C13_ReadsNeverFail ==
    [][ret'.op \in {"get_user_stats", "get_user_stats_raised"} =>
          /\ ret'.op = "get_user_stats"
          /\ ret'.val = UserStatsOf(written', ret'.arg[1])]_vars

----------------------------------------------------------------------------
\* a line of a log is a well-formed record: it parses and its timestamp does
WellFormed(line) == IsJson(line) /\ ~TimestampRaises(line)

\* C14: a malformed line in an event log (not valid JSON, or a record whose timestamp
\* is missing or unparsable) is skipped by every aggregation scan: the popularity,
\* trending and summary reports and the click-through rate complete, and they count
\* the well-formed records only.
C14_MalformedSkipped ==
    /\ ret.op \notin {"get_popular_dramas_raised", "get_trending_searches_raised",
                      "get_analytics_summary_raised"}
    /\ ret.op = "get_analytics_summary" =>
           /\ ret.val.total_interactions =
                  Cardinality({i \in 1 .. Len(interactions) :
                                  /\ WellFormed(interactions[i])
                                  /\ interactions[i].timestamp >= now - ret.arg[1]})
           /\ ret.val.total_searches =
                  Cardinality({i \in 1 .. Len(search_log) :
                                  /\ WellFormed(search_log[i])
                                  /\ search_log[i].timestamp >= now - ret.arg[1]})
    /\ ret.op = "get_click_through_rate" =>
           ret.val.num <= Cardinality({i \in 1 .. Len(interactions) :
                                          /\ WellFormed(interactions[i])
                                          /\ interactions[i].action = "click"
                                          /\ interactions[i].search_id = ret.arg[1]})

----------------------------------------------------------------------------
\* the run of the last ranking call's request with user and session id left out,
\* against the same answers: logSearch is not attempted
WithoutLogging ==
    Recommendation(metadata, use_reranker,
                   [ret.arg[1] EXCEPT !.user_id = "", !.session_id = ""], ret.arg[2])

\* C15: a failure of the analytics write never aborts or alters the ranking
\* response: whether logSearch succeeds, fails or is not attempted, a ranking call
\* ends as the same call without user and session id ends, with the same response
\* (recommendations and analysis), and fails only where that call fails.
C15_LoggingNeverAlters ==
    ret.op \in {"recommend", "recommend_raised"} =>
        IF WithoutLogging.raised THEN ret.op = "recommend_raised"
        ELSE /\ ret.op = "recommend"
             /\ ret.val.response = WithoutLogging.response

\* a ranking call with user and session id returned recommendations although its
\* logSearch failed and left the search log empty
C15_Witness ==
    /\ ret.op = "recommend"
    /\ LogAttempted(ret.arg[1])
    /\ ~ret.arg[2].log_ok
    /\ Len(ret.val.response.recommendations) = 2
    /\ "analysis" \in DOMAIN ret.val.response
    /\ search_log = <<>>

----------------------------------------------------------------------------
----------------------------------------------------------------------------
\* a numeric field as the filters are specified to read it: missing counts as 0
NumberOrZero(x) == IF x = None THEN 0 ELSE x

\* drama r satisfies every supplied filter predicate of f
Satisfies(r, f) ==
    /\ f.genre # <<>> => MatchesText(r, f.genre, {"Genre", "genres"})
    /\ f.director # <<>> => MatchesText(r, f.director, {"Director", "directors"})
    /\ f.publisher # <<>> => MatchesText(r, f.publisher, {"publisher"})
    /\ f.description # <<>> => MatchesText(r, f.description, {"Description", "description"})
    /\ f.keywords # <<>> => MatchesText(r, f.keywords, {"keywords"})
    /\ f.screenwriters # <<>> => MatchesText(r, f.screenwriters, {"screenwriters"})
    /\ f.rating_value # None => NumberOrZero(RatingValue(r)) >= f.rating_value
    /\ f.rating_count # None => NumberOrZero(RatingCount(r)) >= f.rating_count

\* C17: every recommended item is a catalog item that satisfies every supplied
\* filter predicate, a missing numeric field counting as 0, whatever the catalog, the
\* filters and the reranker's answer; and only titles of such items receive a
\* combined score, although the index ranks the whole catalog.
C17_WithinUniverse ==
    ret.op = "recommend" =>
        /\ \A k \in 1 .. Len(ret.val.response.recommendations) :
               /\ Contains(metadata, ret.val.response.recommendations[k])
               /\ Satisfies(ret.val.response.recommendations[k], ret.arg[1].filters)
        /\ ret.val.calls # <<>> =>
               \A t \in DOMAIN ret.val.combined_scores.value :
                   \E i \in 1 .. Len(metadata) :
                       /\ metadata[i].Title = t
                       /\ Satisfies(metadata[i], ret.arg[1].filters)

\* the score a source gave the drama titled t, 0 when t is not among its candidates
TermOf(candidates, t) ==
    IF \E i \in 1 .. Len(candidates) : candidates[i].rec.Title = t
    THEN candidates[CHOOSE i \in 1 .. Len(candidates) : candidates[i].rec.Title = t].score
    ELSE 0

\* the largest lexical score of the batch, 0 replaced by 1
BatchMaximum(lexical) ==
    LET scores == {lexical[i].score : i \in 1 .. Len(lexical)} \cup {0}
        largest == CHOOSE x \in scores : \A y \in scores : y <= x
    IN  IF largest = 0 THEN 1 ELSE largest

\* the candidates of the two sources for the call that ret answers
SemanticCandidates ==
    FaissResults(metadata, ret.val.universe,
                 IndexSearch(ret.arg[2].ranking, SearchK(metadata, ret.val.universe)),
                 ret.arg[1].top_n)
LexicalCandidates ==
    Bm25Results(metadata, ret.val.universe, ret.arg[2].scores, ret.arg[1].top_n)

\* C18: the candidates are the dramas of either source, and for every candidate
\* combined_score = alpha * semantic_score + (1 - alpha) * (lexical_score / batch
\* maximum), the batch maximum 0 replaced by 1 and the term of a missing source 0
\* (both sides multiplied by 1000 * batch maximum: alpha in hundredths, semantic
\* scores in tenths); without similar_to and sort override the list cut to top_n
\* is in the order of the combined scores, best first.
C18_CombinedScore ==
    ret.op = "recommend" /\ ret.val.calls # <<>> =>
        LET alpha == ret.val.response.analysis.dynamic_alpha
            largest == BatchMaximum(LexicalCandidates)
            combined == ret.val.combined_scores.value
            ranked == ret.val.pre_rerank
        IN  /\ DOMAIN combined =
                   {SemanticCandidates[i].rec.Title : i \in 1 .. Len(SemanticCandidates)}
                   \cup {LexicalCandidates[i].rec.Title : i \in 1 .. Len(LexicalCandidates)}
            /\ \A t \in DOMAIN combined :
                   combined[t] = alpha * TermOf(SemanticCandidates, t) * largest
                                 + (100 - alpha) * TermOf(LexicalCandidates, t) * 10
            /\ \A i, j \in 1 .. Len(ranked) :
                   i < j => combined[ranked[i].Title] >= combined[ranked[j].Title]

\* a call with alpha 0.7 and batch maximum 4 in which one drama is a semantic
\* candidate only (0.9: combined 0.63) and another a lexical candidate only (4:
\* combined 0.3)
C18_Witness ==
    /\ ret.op = "recommend" /\ ret.val.calls # <<>>
    /\ ret.val.response.analysis.dynamic_alpha = 70
    /\ BatchMaximum(LexicalCandidates) = 4
    /\ \E s, l \in DOMAIN ret.val.combined_scores.value :
           /\ TermOf(SemanticCandidates, s) = 9 /\ TermOf(LexicalCandidates, l) = 4
           /\ \A i \in 1 .. Len(LexicalCandidates) : LexicalCandidates[i].rec.Title # s
           /\ \A i \in 1 .. Len(SemanticCandidates) : SemanticCandidates[i].rec.Title # l
           /\ ret.val.combined_scores.value[s] = 2520
           /\ ret.val.combined_scores.value[l] = 1200

\* the example of the claim: semantic 0.9 and lexical 2 of a batch maximum 4 give
\* 0.78 at alpha 0.7, lexical 4 alone gives 0.3, and the first ranks above the second
C18_Example ==
    /\ ret.op = "recommend" /\ ret.val.calls # <<>>
    /\ ret.val.response.analysis.dynamic_alpha = 70
    /\ ret.val.max_bm25 = 4
    /\ Len(ret.val.pre_rerank) = 2
    /\ ret.val.combined_scores.value[ret.val.pre_rerank[1].Title] = 3120
    /\ ret.val.combined_scores.value[ret.val.pre_rerank[2].Title] = 1200

\* the call that ret answers reached reranker.predict, and predict raised
RerankerRaised ==
    /\ ret.op \in {"recommend", "recommend_raised"}
    /\ use_reranker
    /\ ret.arg[2].rerank.raises
    /\ ret.op = "recommend" => Contains(ret.val.calls, "reranker.predict")

\* C19: when the call of the reranker raises, recommend still returns a response,
\* and its recommendations are the list as it stood before reranking: the fused
\* ranking of the filtered corpus, in its order, cut to top_n.
C19_RerankFailureKeepsOrder ==
    RerankerRaised =>
        /\ ret.op = "recommend"
        /\ ret.val.response.recommendations = ret.val.pre_rerank
        /\ ret.val.response.recommendations =
               Slice(FusedRanking(ret.val.universe, ret.val.combined_scores),
                     ret.arg[1].top_n)
        /\ Len(ret.val.response.recommendations) <= ret.arg[1].top_n

\* the reranker raised on a list of two dramas cut from a corpus of three, which
\* its scores would have turned around
C19_Witness ==
    /\ RerankerRaised
    /\ ret.op = "recommend"
    /\ Len(ret.val.universe) > ret.arg[1].top_n
    /\ Len(ret.val.response.recommendations) = 2
    /\ ret.val.response.recommendations = ret.val.pre_rerank
    /\ Reranked(ret.val.pre_rerank, [ret.arg[2].rerank EXCEPT !.raises = FALSE])
           # ret.val.pre_rerank

\* the default of get_search_strategy, as the claim states it
DefaultStrategy ==
    [use_reranker |-> TRUE, top_k_candidates |-> 50, apply_diversity |-> TRUE,
     boost_popularity |-> 10]

\* C20: recommend calls the reranker only when the strategy of the detected intent
\* has use_reranker true; for the intents specific_title and trending the reranker
\* is not called and the list is returned in its order before reranking; an
\* intent the table does not list gets the default strategy.
C20_RerankerByStrategy ==
    ret.op = "recommend" /\ ret.val.calls # <<>> =>
        LET intent == ret.arg[2].intent
        IN  /\ Contains(ret.val.calls, "reranker.predict") =>
                   SearchStrategy(intent).use_reranker
            /\ intent \in {"specific_title", "trending"} =>
                   /\ ~Contains(ret.val.calls, "reranker.predict")
                   /\ ret.val.response.recommendations = ret.val.pre_rerank
            /\ intent \in {"similar_to", "genre_browse", "year_based", "constraint"} =>
                   ret.val.strategy = DefaultStrategy

----------------------------------------------------------------------------
\* C30: after any sequence of logInteraction calls made one at a time, every user's
\* aggregate has len(clicked_dramas) <= total_clicks, len(watchlist) <=
\* watchlist_adds, total_clicks + watchlist_adds <= interaction_count, and
\* interaction_count equal to the number of the user's events in the interaction
\* log; no step lowers total_clicks, watchlist_adds or interaction_count.
C30_AggregateInvariants ==
    /\ [](\A u \in Users :
             LET a == AggregateOf(user_stats.doc, u)
             IN  /\ Len(a.clicked_dramas) <= a.total_clicks
                 /\ Len(a.watchlist) <= a.watchlist_adds
                 /\ a.total_clicks + a.watchlist_adds <= a.interaction_count
                 /\ a.interaction_count = Cardinality(EventsOf(u)))
    /\ [][\A u \in Users :
             LET old == AggregateOf(user_stats.doc, u)
                 new == AggregateOf(user_stats'.doc, u)
             IN  /\ new.total_clicks >= old.total_clicks
                 /\ new.watchlist_adds >= old.watchlist_adds
                 /\ new.interaction_count >= old.interaction_count]_vars

\* a user clicked one item twice and the other user viewed an item: the counters
\* exceed the lists and the events are counted per user
C30_Witness ==
    /\ AggregateOf(user_stats.doc, "u1").total_clicks = 2
    /\ Len(AggregateOf(user_stats.doc, "u1").clicked_dramas) = 1
    /\ AggregateOf(user_stats.doc, "u1").interaction_count = 2
    /\ AggregateOf(user_stats.doc, "u2").interaction_count = 1
    /\ AggregateOf(user_stats.doc, "u2").total_clicks = 0
    /\ AggregateOf(user_stats.doc, "u2").watchlist_adds = 0

----------------------------------------------------------------------------
\* the adjustments of the claim, applied to x in the order given
Adjusted(x, order, entities) ==
    LET Step(k) == IF order[k] = 1 THEN (IF entities.actors THEN -10 ELSE 0)
                   ELSE IF order[k] = 2 THEN (IF entities.years THEN -5 ELSE 0)
                   ELSE (IF entities.emotions THEN 10 ELSE 0)
    IN  ((x + Step(1)) + Step(2)) + Step(3)

\* the base table of the claim, in hundredths
ClaimedBase(intent) ==
    CASE intent = "specific_title" -> 30
      [] intent = "actor_based" -> 35
      [] intent = "year_based" -> 50
      [] intent = "genre_browse" -> 65
      [] intent \in {"top_rated", "constraint"} -> 60
      [] intent = "emotion_based" -> 85
      [] intent = "similar_to" -> 75
      [] intent = "trending" -> 55
      [] intent = "vague" -> 80
      [] intent = "unlisted" -> 70

\* C24: for every intent and every combination of actor, year and emotion entities
\* the fusion weight is base(intent) - 0.1 [actors] - 0.05 [years] + 0.1 [emotions]
\* clamped into [0.2, 0.95], in whatever order the adjustments are applied, and lies
\* within [0.2, 0.95]; emotion_based with only an actor entity gives 0.75.
C24_DynamicAlpha ==
    ret.op = "calculate_dynamic_alpha" =>
        /\ \A order \in Orderings(3) :
               ret.val = Max(20, Min(95, Adjusted(ClaimedBase(ret.arg[1]), order, ret.arg[2])))
        /\ ret.val >= 20 /\ ret.val <= 95
        /\ ret.arg = <<"emotion_based", [actors |-> TRUE, years |-> FALSE, emotions |-> FALSE]>>
               => ret.val = 75

\* specific_title with an actor and a year: 0.3 - 0.1 - 0.05 is below the range and
\* comes out as 0.2
C24_Witness ==
    /\ ret.op = "calculate_dynamic_alpha"
    /\ ret.arg = <<"specific_title", [actors |-> TRUE, years |-> TRUE, emotions |-> FALSE]>>
    /\ ret.val = 20

----------------------------------------------------------------------------
\* the position of a drama in the catalog
CatalogIndex(r) == CHOOSE i \in 1 .. Len(metadata) : metadata[i] = r

\* C27: without similar_to and sort override, the list cut from the fused ranking is
\* in the order of the combined scores, best first, and of two candidates with equal
\* combined score the one with the smaller catalog index comes first, whatever
\* order the semantic and the lexical engine returned them in.
C27_TiesInCatalogOrder ==
    ret.op = "recommend" /\ ret.val.calls # <<>> =>
        LET combined == ret.val.combined_scores.value
            ranked == ret.val.pre_rerank
        IN  \A i, j \in 1 .. Len(ranked) :
                i < j =>
                    /\ combined[ranked[i].Title] >= combined[ranked[j].Title]
                    /\ combined[ranked[i].Title] = combined[ranked[j].Title] =>
                           CatalogIndex(ranked[i]) < CatalogIndex(ranked[j])

----------------------------------------------------------------------------
\* the value a request sorts by: the named field, or the rating of the top-rated
\* sort; a missing field counts as 0
SortValue(r, req) ==
    IF req.sort_by # "" THEN NumberOrZero(Get(r, req.sort_by, 0))
    ELSE NumberOrZero(RatingValue(r))

\* a comes no later than b in the direction the request asks for
InRequestedOrder(a, b, req) ==
    IF req.sort_by # "" /\ req.sort_order = "asc"
    THEN SortValue(a, req) <= SortValue(b, req)
    ELSE SortValue(a, req) >= SortValue(b, req)

\* C28: with a sort override or the top-rated sort the returned recommendations are
\* ordered by that field in the requested direction and are the first top_n items
\* of the sorted corpus; without one they are the first top_n of the fused order;
\* the list never has more than top_n items; whether the reranker is loaded or not,
\* answers or raises.
C28_SortOverrideKept ==
    ret.op = "recommend" /\ ret.val.calls # <<>> =>
        LET req == ret.arg[1]
            recs == ret.val.response.recommendations
            sorting == req.sort_by # "" \/ req.top_rated
        IN  /\ Len(recs) <= req.top_n
            /\ Len(recs) = Min(req.top_n, Len(ret.val.universe))
            /\ sorting =>
                   /\ \A i, j \in 1 .. Len(recs) :
                          i < j => InRequestedOrder(recs[i], recs[j], req)
                   /\ \A i \in 1 .. Len(recs), k \in 1 .. Len(ret.val.universe) :
                          ~Contains(recs, ret.val.universe[k]) =>
                              InRequestedOrder(recs[i], ret.val.universe[k], req)
            /\ ~sorting =>
                   recs = Slice(FusedRanking(ret.val.universe, ret.val.combined_scores),
                                req.top_n)

----------------------------------------------------------------------------
\* similar_to names a drama of the filtered corpus: a title equals it up to letter
\* case, or else the fuzzy matcher scores it 70 or more against the titles (known
\* when similar_to is the query text, which the matcher was asked about)
SimilarResolved ==
    LET req == ret.arg[1]
        exact == \E i \in 1 .. Len(ret.val.universe) :
                     Lower(ret.val.universe[i].Title) = Lower(req.similar_to)
    IN  \/ exact
        \/ /\ req.similar_to = req.title
           /\ Contains(ret.val.calls, "process.extractOne")
           /\ ret.arg[2].fuzzy_score >= 70

\* the catalog indices the similarity query returned
SimilarIds ==
    LET found == IndexSearch(ret.arg[2].sim_ranking, Len(ret.val.universe) + SimilarMargin)
    IN  {found[i].idx : i \in 1 .. Len(found)}

\* the fused ranking of the call without the dramas outside SimilarIds
FusedAmongSimilar ==
    LET InSimilar(r) == CatalogIndex(r) \in SimilarIds
    IN  SelectSeq(FusedRanking(ret.val.universe, ret.val.combined_scores), InSimilar)

\* C29: when similar_to is supplied and names a drama of the filtered corpus, by a
\* title equal up to letter case or else by a fuzzy match of score 70 or more, the
\* list before reranking is the fused ranking without the dramas the similarity
\* query did not return, in fused order, cut to top_n; when none is left the call
\* returns an empty list.
C29_SimilarToIntersects ==
    (/\ ret.op \in {"recommend", "recommend_raised"}
     /\ ret.arg[1].similar_to # <<>>
     /\ FilteredMetadata(metadata, ret.arg[1].filters) # <<>>) =>
        /\ ret.op = "recommend"
        /\ SimilarResolved =>
               /\ ret.val.pre_rerank = Slice(FusedAmongSimilar, ret.arg[1].top_n)
               /\ ret.val.response.recommendations \in
                      {ret.val.pre_rerank, Reranked(ret.val.pre_rerank, ret.arg[2].rerank)}

----------------------------------------------------------------------------
\* some pattern of the n-th group of INTENT_PATTERNS is found in the query
GroupMatches(n, query) ==
    \E i \in 1 .. Len(IntentPatterns[n].patterns) :
        Search(IntentPatterns[n].patterns[i], query, TRUE)

----------------------------------------------------------------------------
\* C22: when no pattern group matches, analyze returns specific_title with
\* confidence 0.8 for a query that contains two adjacent capitalized words; else
\* genre_browse with confidence 0.7 for a query that contains a word of the genre
\* vocabulary; else vague with confidence 0.5.
C22_Fallbacks ==
    (/\ ret.op = "analyze"
     /\ \A n \in 1 .. Len(IntentPatterns) : ~GroupMatches(n, Strip(Lower(ret.arg)))) =>
        IF Search(TitlePattern, ret.arg, FALSE)
        THEN ret.val.intent = "specific_title" /\ ret.val.confidence = 80
        ELSE IF \E i \in 1 .. Len(CommonGenres) :
                    IsSubstring(CommonGenres[i], Lower(ret.arg))
        THEN ret.val.intent = "genre_browse" /\ ret.val.confidence = 70
        ELSE ret.val.intent = "vague" /\ ret.val.confidence = 50

----------------------------------------------------------------------------
\* the query is one or more emotion adjectives followed by the word 'drama'
EmotionsThenDrama(query) ==
    LET words == Split(Strip(Lower(query)))
    IN  /\ Len(words) >= 2
        /\ Last(words) = <<"d", "r", "a", "m", "a">>
        /\ \A i \in 1 .. (Len(words) - 1) :
               \E j \in 1 .. Len(Emotions) : words[i] = Emotions[j]

\* C23: recommend reports a query made of emotion adjectives followed by 'drama',
\* such as 'sad emotional drama', with intent emotion_based: two lower-case words
\* in front of drama, series or show are not taken for the name of an actor.
C23_EmotionNotActor ==
    (/\ ret.op = "recommend"
     /\ "analysis" \in DOMAIN ret.val.response
     /\ EmotionsThenDrama(ret.arg[1].title)) =>
        ret.val.response.analysis.intent = "emotion_based"

----------------------------------------------------------------------------
\* a token followed by the first two entries of its synonym list, or by the whole
\* list when it is shorter, each after one space; the token alone when it is no key
\* of the synonym table
TokenWithSynonyms(token) ==
    LET After(list) ==
            IF Len(list) = 0 THEN token
            ELSE IF Len(list) = 1 THEN token \o <<" ">> \o list[1]
            ELSE token \o <<" ">> \o list[1] \o <<" ">> \o list[2]
    IN  IF token \in DOMAIN Synonyms THEN After(Synonyms[token]) ELSE token

\* where the text of the i-th token starts in the expansion of tokens
RECURSIVE Offset(_, _)
Offset(tokens, i) ==
    IF i = 1 THEN 1
    ELSE Offset(tokens, i - 1) + Len(TokenWithSynonyms(tokens[i - 1])) + 1

----------------------------------------------------------------------------
\* C26: whatever the intent, the analysis of a query that contains a capitalized
\* two-word name has that name among entities.actors (as written or in lower
\* case), and its alpha is the table weight of the intent with the actor
\* adjustment of -0.1 applied next to those for years and emotions.
C26_ActorsExtracted ==
    ret.op = "analyze" =>
        LET names == FindAll(<<ActorPattern>>, ret.arg, 1, FALSE)
            found == ret.val.entities
        IN  /\ \A i \in 1 .. Len(names) :
                   \/ Contains(found.actors, names[i])
                   \/ Contains(found.actors, Lower(names[i]))
            /\ names # <<>> =>
                   ret.val.dynamic_alpha =
                       Max(20, Min(95, BaseAlpha(ret.val.intent) - 10
                                           - (IF found.years # <<>> THEN 5 ELSE 0)
                                           + (IF found.emotions # <<>> THEN 10 ELSE 0)))

====
